---------------------------- MODULE Spec2Model ----------------------------
(***************************************************************************)
(* Model of the impact-dashboard pipeline: raw-response store with         *)
(* 60-minute dedupe, discovery of merged pull requests, fact derivation,   *)
(* per-author aggregation and the statistics read path.                    *)
(*                                                                         *)
(* Time is an integer number of clock ticks; TicksPerSec ticks make one    *)
(* second, so the clock is finer than the whole-second timestamps SQLite   *)
(* stores and than the second-resolution timestamps of the origin API.     *)
(*                                                                         *)
(* Strings that the code inspects character by character (titles, logins,  *)
(* owner and repository names) are sequences of one-character strings.     *)
(* Endpoints are sequences of tokens: the literal parts of the path are    *)
(* one token each, owner and repository names are one-character tokens.    *)
(***************************************************************************)
EXTENDS Integers, Sequences, FiniteSets, TLC

VARIABLES
    now,      \* the wall clock, in ticks
    raw,      \* table api_raw_responses: a sequence, row id = position
    facts,    \* table pr_facts: a set of rows
    stats,    \* table author_stats: a set of rows
    ret,      \* what the last completed operation returned
    sync,     \* the state of the discovery run in progress
    token,    \* whether GITHUB_TOKEN is configured
    title     \* the title under classification (classification specification)

vars == <<now, raw, facts, stats, ret, sync, token, title>>

---------------------------------------------------------------------------
(* Bounds of the model *)

TicksPerSec == 2
MaxRaw == 3
MaxRawDerive == 3
MaxJitter == 3
MaxWindows == 1
MaxUpperCase == 2

---------------------------------------------------------------------------
(* Program constants *)

DedupeMinutes == 60
DEFAULT_DAYS == 90
TOP_N == 5

DedupeWindowSec == DedupeMinutes * 60
DedupeWindowTicks == DedupeWindowSec * TicksPerSec
MS_PER_DAY == 24 * 60 * 60 * TicksPerSec

\* The instant the model starts at: later than the longest look-back window.
StartTicks == (DEFAULT_DAYS + 10) * MS_PER_DAY

---------------------------------------------------------------------------
(* Time and timestamps *)

\* SQLite's CURRENT_TIMESTAMP and datetime('now'): whole seconds.
SecOf(t) == t \div TicksPerSec

\* Date.prototype.toISOString: seconds plus a fraction, "...SS.fffZ".
\* A timestamp string is a record; frac = -1 stands for the origin API's
\* form without a fraction, "...SSZ".
IsoOf(t) == [sec |-> SecOf(t), frac |-> t % TicksPerSec]
ApiTime(s) == [sec |-> s, frac |-> -1]
NullTime == [sec |-> -1, frac |-> -1]

\* Byte-wise comparison of two timestamp strings of the forms above, as
\* SQLite's BINARY collation does it: the date and time digits first, then
\* "Z" (0x5A) against "." (0x2E), then the fraction digits.
StrLeq(a, b) ==
    IF a.sec # b.sec THEN a.sec < b.sec
    ELSE IF a.frac = -1 THEN b.frac = -1
    ELSE IF b.frac = -1 THEN TRUE
    ELSE a.frac <= b.frac

\* Date.parse of a timestamp string, in ticks.
DateParse(a) == a.sec * TicksPerSec + (IF a.frac = -1 THEN 0 ELSE a.frac)

---------------------------------------------------------------------------
(* Characters and strings *)

Upper == <<"A","B","C","E","F","H","I","O","R","T","V","X">>
LowerOf == <<"a","b","c","e","f","h","i","o","r","t","v","x">>

\* String.prototype.toLowerCase / SQLite lower(), one character.
LowerChar(c) ==
    CASE c = "A" -> "a" [] c = "B" -> "b" [] c = "C" -> "c" [] c = "E" -> "e"
      [] c = "F" -> "f" [] c = "H" -> "h" [] c = "I" -> "i" [] c = "O" -> "o"
      [] c = "R" -> "r" [] c = "T" -> "t" [] c = "V" -> "v" [] c = "X" -> "x"
      [] OTHER -> c

UpperChar(c) ==
    IF \E i \in 1..Len(LowerOf) : LowerOf[i] = c
    THEN Upper[CHOOSE i \in 1..Len(LowerOf) : LowerOf[i] = c]
    ELSE c

Lower(s) == [i \in 1..Len(s) |-> LowerChar(s[i])]

StartsWith(s, p) == Len(p) <= Len(s) /\ SubSeq(s, 1, Len(p)) = p
EndsWith(s, p) == Len(p) <= Len(s) /\ SubSeq(s, Len(s) - Len(p) + 1, Len(s)) = p

---------------------------------------------------------------------------
(* Raw Store Interface *)

\* sha256 of the serialized payload: equal exactly for equal payloads.
Checksum(payload) == payload

\* The dedupe query with the window taken in seconds instead of minutes.
DuplicateRow_WindowInSeconds(r, source, endpoint, checksum, t) ==
    /\ r.source = source
    /\ r.endpoint = endpoint
    /\ r.checksum = checksum
    /\ r.fetched_at >= SecOf(t) - DedupeMinutes

\* The row the dedupe query of insertRawResponse looks for.
DuplicateRow(r, source, endpoint, checksum, t) ==
    /\ r.source = source
    /\ r.endpoint = endpoint
    /\ r.checksum = checksum
    /\ r.fetched_at >= SecOf(t) - DedupeWindowSec

NewRow(source, endpoint, statusCode, payload, t) ==
    [source |-> source, endpoint |-> endpoint, fetched_at |-> SecOf(t),
     status_code |-> statusCode, payload |-> payload,
     checksum |-> Checksum(payload)]

\* insertRawResponse as INSERT OR REPLACE on (source, endpoint): the rows of
\* the endpoint give way to the new one.
InsertRawResponse_Replacing(table, source, endpoint, statusCode, payload, t) ==
    [table |-> Append(SelectSeq(table, LAMBDA r : ~(r.source = source /\ r.endpoint = endpoint)),
                      NewRow(source, endpoint, statusCode, payload, t)),
     inserted |-> TRUE, id |-> Len(table) + 1]

\* insertRawResponse: the table after the call and the result returned.
InsertRawResponse(table, source, endpoint, statusCode, payload, t) ==
    IF \E i \in 1..Len(table) :
          DuplicateRow(table[i], source, endpoint, Checksum(payload), t)
    THEN [table |-> table, inserted |-> FALSE, id |-> 0]
    ELSE [table |-> Append(table, NewRow(source, endpoint, statusCode, payload, t)),
          inserted |-> TRUE, id |-> Len(table) + 1]

---------------------------------------------------------------------------
(* Operations *)

Idle == [pc |-> "idle"]
NoRet == [op |-> "none"]

\* The clock moves on to a later instant.
Advance(t) ==
    /\ t > now
    /\ now' = t
    /\ UNCHANGED <<raw, facts, stats, ret, sync, token, title>>

\* store(source, endpoint, statusCode, payload)
Store(source, endpoint, statusCode, payload) ==
    LET res == InsertRawResponse(raw, source, endpoint, statusCode, payload, now) IN
    /\ raw' = res.table
    /\ ret' = [op |-> "store", inserted |-> res.inserted, id |-> res.id]
    /\ UNCHANGED <<now, facts, stats, sync, token, title>>

---------------------------------------------------------------------------
(* SQL helpers *)

\* The one-character tokens: what the wildcard _ of LIKE can stand for.
Chars == {"o", "O", "r", "R", "_", "/", "1", "2", "3", "4", "5", "6", "7", "8", "9"}

\* SQLite's  s LIKE p  over token sequences: % matches any run of tokens, _
\* any one character, every other token itself, letters without regard to case.
\* (The operands are bound to their values at each step.)
RECURSIVE Like(_, _)
Like(str, pat) ==
    \E s \in {str}, p \in {pat} :
        IF p = <<>> THEN s = <<>>
        ELSE IF Head(p) = "%"
             THEN \E k \in 0..Len(s) : Like(SubSeq(s, k + 1, Len(s)), Tail(p))
        ELSE IF s = <<>> THEN FALSE
        ELSE IF Head(p) = "_" THEN Head(s) \in Chars /\ Like(Tail(s), Tail(p))
        ELSE LowerChar(Head(s)) = LowerChar(Head(p)) /\ Like(Tail(s), Tail(p))

\* json_extract(payload, '$.<field>'): NULL when the payload has no such field.
JsonTime(payload, field) ==
    IF field \in DOMAIN payload THEN payload[field] ELSE NullTime
JsonText(payload, field) ==
    IF field \in DOMAIN payload THEN payload[field] ELSE <<>>
JsonNumber(payload, field) ==
    IF field \in DOMAIN payload THEN payload[field] ELSE 0

---------------------------------------------------------------------------
(* Endpoints and origin payloads *)

RepoEndpoint(owner, repo) == <<"/repos/", owner, "/", repo>>
DetailEndpoint(owner, repo, n) == <<"/repos/", owner, "/", repo, "/pulls/", ToString(n)>>
DetailPattern(owner, repo) == <<"/repos/", owner, "/", repo, "/pulls/", "%">>

\* html_url of pull request n as the origin reports it.
PrUrl(owner, repo, n) == <<"https://github.com/", owner, "/", repo, "/pull/", ToString(n)>>

RepoPayload(branch) == [default_branch |-> branch]

DetailPayload(n, mergedAt, base, url, ttl, login) ==
    [number |-> n, merged_at |-> mergedAt, base_ref |-> base, html_url |-> url,
     title |-> ttl, login |-> login]

---------------------------------------------------------------------------
(* Fact Deriver *)

\* Scores are counted in halves of a point: 3 points are 6, half a point is 1.
Kinds == {"feat", "fix", "chore", "revert", "other"}

FEAT == <<"f", "e", "a", "t">>
FIX == <<"f", "i", "x">>
CHORE == <<"c", "h", "o", "r", "e">>
REVERT == <<"r", "e", "v", "e", "r", "t">>

\* String.prototype.split(":")[0]: the part before the first colon.
BeforeColon(s) ==
    IF \E i \in 1..Len(s) : s[i] = ":"
    THEN SubSeq(s, 1, (CHOOSE i \in 1..Len(s) :
                          s[i] = ":" /\ \A j \in 1..(i - 1) : s[j] # ":") - 1)
    ELSE s

\* String.prototype.trim
Trim(s) ==
    IF \A i \in 1..Len(s) : s[i] = " " THEN <<>>
    ELSE LET lo == CHOOSE i \in 1..Len(s) : s[i] # " " /\ \A j \in 1..(i - 1) : s[j] = " "
             hi == CHOOSE i \in 1..Len(s) : s[i] # " " /\ \A j \in (i + 1)..Len(s) : s[j] = " "
         IN SubSeq(s, lo, hi)

\* deriveKind with the lower-casing left out.
DeriveKind_CaseSensitive(ttl) ==
    LET prefix == Trim(BeforeColon(ttl)) IN
    IF StartsWith(prefix, FEAT) THEN [kind |-> "feat", points |-> 6]
    ELSE IF StartsWith(prefix, FIX) THEN [kind |-> "fix", points |-> 4]
    ELSE IF StartsWith(prefix, CHORE) THEN [kind |-> "chore", points |-> 2]
    ELSE IF StartsWith(prefix, REVERT) THEN [kind |-> "revert", points |-> 1]
    ELSE [kind |-> "other", points |-> 1]

\* deriveKind
DeriveKind(ttl) ==
    LET prefix == Trim(BeforeColon(Lower(ttl))) IN
    IF StartsWith(prefix, FEAT) THEN [kind |-> "feat", points |-> 6]
    ELSE IF StartsWith(prefix, FIX) THEN [kind |-> "fix", points |-> 4]
    ELSE IF StartsWith(prefix, CHORE) THEN [kind |-> "chore", points |-> 2]
    ELSE IF StartsWith(prefix, REVERT) THEN [kind |-> "revert", points |-> 1]
    ELSE [kind |-> "other", points |-> 1]

\* The start of the look-back window, new Date(Date.now() - days * MS_PER_DAY).
SinceIso(t, days) == IsoOf(t - days * MS_PER_DAY)

\* The latest stored repository-metadata row (ORDER BY id DESC LIMIT 1); 0 if none.
LatestRepoRow(table, owner, repo) ==
    LET hit == {i \in 1..Len(table) :
                   /\ table[i].source = "github"
                   /\ Lower(table[i].endpoint) = Lower(RepoEndpoint(owner, repo))}
    IN IF hit = {} THEN 0 ELSE CHOOSE i \in hit : \A j \in hit : j <= i

StoredDefaultBranch(table, owner, repo) ==
    LET i == LatestRepoRow(table, owner, repo) IN
    IF i = 0 THEN <<>> ELSE JsonText(table[i].payload, "default_branch")

\* CTE pr_rows: the qualifying detail rows, by id.
PrRows(table, owner, repo, since) ==
    LET pattern == Lower(DetailPattern(owner, repo)) IN
    {i \in 1..Len(table) :
        \E r \in {table[i]} :
            /\ r.source = "github"
            /\ Like(Lower(r.endpoint), pattern)
            /\ r.status_code = 200
            /\ JsonTime(r.payload, "merged_at") # NullTime
            /\ StrLeq(since, JsonTime(r.payload, "merged_at"))}

\* CTE latest with the minimum taken instead of the maximum.
Latest_Oldest(table, rows) ==
    {i \in rows : \A j \in rows :
        JsonNumber(table[j].payload, "number") = JsonNumber(table[i].payload, "number")
            => i <= j}

\* CTE latest without its partition: the one row of highest id.
Latest_NoPartition(table, rows) == {i \in rows : \A j \in rows : j <= i}

\* CTE latest: per pr_number the highest id.
Latest(table, rows) ==
    {i \in rows : \A j \in rows :
        JsonNumber(table[j].payload, "number") = JsonNumber(table[i].payload, "number")
            => j <= i}

\* CTE picked with the base-branch filter applied before latest-wins.
Picked_FilterBeforeLatest(table, owner, repo, since, branch) ==
    UNION {Latest(table, {i \in rows : JsonText(table[i].payload, "base_ref") = branch}) :
              rows \in {PrRows(table, owner, repo, since)}}

\* CTE picked cut down to its row of lowest id.
Picked_LowestRowOnly(table, owner, repo, since, branch) ==
    UNION {{i \in Latest(table, rows) :
              /\ JsonText(table[i].payload, "base_ref") = branch
              /\ \A j \in Latest(table, rows) :
                    JsonText(table[j].payload, "base_ref") = branch => i <= j} :
              rows \in {PrRows(table, owner, repo, since)}}

\* CTE picked: the latest rows whose base branch is the default branch.
Picked(table, owner, repo, since, branch) ==
    UNION {{i \in Latest(table, rows) : JsonText(table[i].payload, "base_ref") = branch} :
              rows \in {PrRows(table, owner, repo, since)}}

\* The fact built from one picked row; the loop skips a row that lacks one of
\* html_url, merged_at, title, user.login.
Complete(payload) ==
    /\ JsonText(payload, "html_url") # <<>>
    /\ JsonTime(payload, "merged_at") # NullTime
    /\ JsonText(payload, "title") # <<>>
    /\ JsonText(payload, "login") # <<>>

FactOf(table, i, owner, repo) ==
    CHOOSE f \in
        {[owner |-> owner, repo |-> repo, pr_url |-> p.html_url,
          merged_at |-> p.merged_at, title |-> p.title, author |-> p.login,
          author_url |-> <<"https://github.com/">> \o p.login,
          kind |-> k.kind, points |-> k.points,
          source_row_id |-> i, fetched_at |-> table[i].fetched_at] :
            p \in {table[i].payload}, k \in {DeriveKind(table[i].payload.title)}} : TRUE

SameFactKey(f, g) == f.owner = g.owner /\ f.repo = g.repo /\ f.pr_url = g.pr_url

\* The upsert with the points added to those of the row in conflict.
Upsert_Additive(table, f) ==
    LET old == {g \in table : SameFactKey(f, g)} IN
    IF old = {} THEN table \cup {f}
    ELSE (table \ old) \cup {[f EXCEPT !.points = f.points + g.points] : g \in old}

\* A plain INSERT, without the conflict clause and the unique index.
Upsert_InsertOnly(table, f) == table \cup {f}

\* INSERT ... ON CONFLICT(owner, repo, pr_url) DO UPDATE SET ...
Upsert(table, f) == {g \in table : ~SameFactKey(f, g)} \cup {f}

\* The upsert loop leaving at the first row that lacks a field.
RECURSIVE UpsertRows_StopAtIncomplete(_, _, _, _, _)
UpsertRows_StopAtIncomplete(fs, table, rows, owner, repo) ==
    IF rows = {} THEN fs
    ELSE CHOOSE out \in
            {IF Complete(table[i].payload)
             THEN UpsertRows_StopAtIncomplete(Upsert(fs, FactOf(table, i, owner, repo)),
                                              table, rows \ {i}, owner, repo)
             ELSE fs :
                i \in {x \in rows : \A y \in rows : x <= y}} : TRUE

\* The upsert loop over the picked rows, in id order.
RECURSIVE UpsertRows(_, _, _, _, _)
UpsertRows(fs, table, rows, owner, repo) ==
    IF rows = {} THEN fs
    ELSE CHOOSE out \in
            {UpsertRows(IF Complete(table[i].payload) THEN Upsert(fs, f) ELSE fs,
                        table, rows \ {i}, owner, repo) :
                i \in {x \in rows : \A y \in rows : x <= y},
                f \in {FactOf(table, CHOOSE x \in rows : \A y \in rows : x <= y,
                              owner, repo)}} : TRUE

\* refreshPrFactsForRepo emptying the fact table before it looks for the
\* default branch.
RefreshOutcome_ClearingFirst(table2, fs, owner, repo, since, until, branch, sent, error) ==
    [table |-> table2,
     facts |-> IF branch # <<>>
               THEN CHOOSE out \in
                      {UpsertRows(fs, table2, rows, owner, repo) :
                          rows \in {Picked(table2, owner, repo, since, branch)}} : TRUE
               ELSE {},
     ok |-> branch # <<>>, sent |-> sent, since |-> since, until |-> until,
     error |-> error]

\* What refreshPrFactsForRepo does, given the origin's answer to the metadata
\* request it may send: the tables after it and whether it threw.
\* resp.ok: the response was successful; resp.data: its payload.
RefreshOutcome(table2, fs, owner, repo, since, until, branch, sent, error) ==
    [table |-> table2,
     facts |-> IF branch # <<>>
               THEN CHOOSE out \in
                      {UpsertRows(fs, table2, rows, owner, repo) :
                          rows \in {Picked(table2, owner, repo, since, branch)}} : TRUE
               ELSE fs,
     ok |-> branch # <<>>, sent |-> sent, since |-> since, until |-> until,
     error |-> error]

\* refreshPrFactsForRepo fetching the metadata whether or not it is stored.
RefreshWith_AlwaysFetch(table, fs, owner, repo, days, t, hasToken, resp, stored) ==
    LET since == SinceIso(t, days)
        fetch == TRUE
        sent == fetch /\ hasToken
        got == sent /\ resp.ok
        table2 == IF got
                  THEN Append(table, NewRow("github", RepoEndpoint(owner, repo),
                                            resp.status, resp.data, t))
                  ELSE table
        branch == IF ~fetch THEN stored
                  ELSE IF got THEN JsonText(resp.data, "default_branch") ELSE <<>>
        error == IF branch # <<>> THEN "none"
                 ELSE IF fetch /\ ~hasToken THEN "GITHUB_TOKEN missing"
                 ELSE IF fetch /\ ~resp.ok THEN "GitHub repo fetch failed"
                 ELSE "default_branch not found"
    IN CHOOSE out \in {RefreshOutcome(tb, fs, owner, repo, since, IsoOf(t), br, sent, error) :
                          tb \in {table2}, br \in {branch}} : TRUE

RefreshWith(table, fs, owner, repo, days, t, hasToken, resp, stored) ==
    LET since == SinceIso(t, days)
        fetch == stored = <<>>
        sent == fetch /\ hasToken
        got == sent /\ resp.ok
        table2 == IF got
                  THEN Append(table, NewRow("github", RepoEndpoint(owner, repo),
                                            resp.status, resp.data, t))
                  ELSE table
        branch == IF ~fetch THEN stored
                  ELSE IF got THEN JsonText(resp.data, "default_branch") ELSE <<>>
        error == IF branch # <<>> THEN "none"
                 ELSE IF fetch /\ ~hasToken THEN "GITHUB_TOKEN missing"
                 ELSE IF fetch /\ ~resp.ok THEN "GitHub repo fetch failed"
                 ELSE "default_branch not found"
    IN CHOOSE out \in {RefreshOutcome(tb, fs, owner, repo, since, IsoOf(t), br, sent, error) :
                          tb \in {table2}, br \in {branch}} : TRUE

RefreshPrFacts(table, fs, owner, repo, days, t, hasToken, resp) ==
    CHOOSE out \in {RefreshWith(table, fs, owner, repo, days, t, hasToken, resp, stored) :
                       stored \in {StoredDefaultBranch(table, owner, repo)}} : TRUE

\* deriveFacts(owner, repo, days)
Derive(owner, repo, days, resp) ==
    \E res \in {RefreshPrFacts(raw, facts, owner, repo, days, now, token, resp)} :
        /\ raw' = res.table
        /\ facts' = res.facts
        /\ ret' = [op |-> "derive", ok |-> res.ok, owner |-> owner, repo |-> repo,
                   days |-> days, since |-> res.since, until |-> res.until,
                   sent |-> res.sent, error |-> res.error,
                   \* history: the previous operation was this same call,
                   \* successful and over the same window
                   again |-> /\ ret.op = "derive" /\ ret.ok
                             /\ ret.owner = owner /\ ret.repo = repo
                             /\ ret.days = days /\ ret.since = res.since,
                   \* history: the facts this call wrote over an existing row
                   replaced |-> Cardinality({f \in res.facts \ facts :
                                    \E g \in facts : SameFactKey(f, g)})]
        /\ UNCHANGED <<now, stats, sync, token, title>>

---------------------------------------------------------------------------
(* Author statistics *)

BotPattern == <<"%", "[", "b", "o", "t", "]">>

\* The bot test with LIKE's and lower()'s case folding left out.
IsBot_CaseSensitive(author) ==
    EndsWith(author, <<"[", "b", "o", "t", "]">>)

\* lower(author) LIKE '%[bot]'
IsBot(author) == Like(Lower(author), BotPattern)

\* The WHERE clause of both aggregations over pr_facts.
Selected(fs, owner, repo, since, until) ==
    {f \in fs :
        /\ f.owner = owner
        /\ f.repo = repo
        /\ StrLeq(since, f.merged_at)
        /\ StrLeq(f.merged_at, until)
        /\ ~IsBot(f.author)}

\* SUM(points)
RECURSIVE SumPoints(_)
SumPoints(fs) ==
    CHOOSE n \in {IF s = {} THEN 0
                  ELSE LET f == CHOOSE x \in s : TRUE IN f.points + SumPoints(s \ {f}) :
                  s \in {fs}} : TRUE

CountKind(fs, kind) == Cardinality({f \in fs : f.kind = kind})

\* One row of the GROUP BY with COUNT(DISTINCT title) for COUNT(*).
AggRow_DistinctTitles(author, authorUrl, fs) ==
    [author |-> author, author_url |-> authorUrl,
     total_score |-> SumPoints(fs), total_prs |-> Cardinality({f.title : f \in fs}),
     feat_count |-> CountKind(fs, "feat"), fix_count |-> CountKind(fs, "fix"),
     chore_count |-> CountKind(fs, "chore"), revert_count |-> CountKind(fs, "revert"),
     other_count |-> CountKind(fs, "other")]

\* One row of the GROUP BY author, author_url.
AggRow(author, authorUrl, fs) ==
    [author |-> author, author_url |-> authorUrl,
     total_score |-> SumPoints(fs), total_prs |-> Cardinality(fs),
     feat_count |-> CountKind(fs, "feat"), fix_count |-> CountKind(fs, "fix"),
     chore_count |-> CountKind(fs, "chore"), revert_count |-> CountKind(fs, "revert"),
     other_count |-> CountKind(fs, "other")]

Aggregate(fs, owner, repo, since, until) ==
    UNION {{AggRow(g[1], g[2], {f \in sel : f.author = g[1] /\ f.author_url = g[2]}) :
               g \in {<<f.author, f.author_url>> : f \in sel}} :
           sel \in {Selected(fs, owner, repo, since, until)}}

\* ORDER_BY_MAP: the two columns a ranking orders by, both descending.
RankKeys == {"overall", "feat", "fix", "chore", "revert", "other"}
OrderBy(r, rankBy) ==
    CASE rankBy = "feat" -> <<r.feat_count, r.total_score>>
      [] rankBy = "fix" -> <<r.fix_count, r.total_score>>
      [] rankBy = "chore" -> <<r.chore_count, r.total_score>>
      [] rankBy = "revert" -> <<r.revert_count, r.total_score>>
      [] rankBy = "other" -> <<r.other_count, r.total_score>>
      [] OTHER -> <<r.total_score, r.total_prs>>

\* The ordering with the second column disregarded.
Precedes_FirstColumnOnly(a, b, rankBy) ==
    OrderBy(a, rankBy)[1] >= OrderBy(b, rankBy)[1]

\* Row a may stand before row b under ORDER BY ... DESC, ... DESC.
Precedes(a, b, rankBy) ==
    \/ OrderBy(a, rankBy)[1] > OrderBy(b, rankBy)[1]
    \/ /\ OrderBy(a, rankBy)[1] = OrderBy(b, rankBy)[1]
       /\ OrderBy(a, rankBy)[2] >= OrderBy(b, rankBy)[2]

\* ORDER BY ... LIMIT k: every result list the engine may return; rows equal
\* in both columns come in any order.
RECURSIVE TopLists(_, _, _)
TopLists(rows, k, rankBy) ==
    UNION {IF k = 0 \/ rs = {} THEN {<<>>}
           ELSE UNION {{<<m>> \o rest : rest \in TopLists(rs \ {m}, k - 1, rankBy)} :
                          m \in {x \in rs : \A y \in rs : Precedes(x, y, rankBy)}} :
           rs \in {rows}}

SameStatKey(a, b) ==
    a.owner = b.owner /\ a.repo = b.repo /\ a.days = b.days /\ a.author = b.author

StatOf(r, owner, repo, days, since, until, computedAt) ==
    [owner |-> owner, repo |-> repo, days |-> days, since_iso |-> since,
     until_iso |-> until, author |-> r.author, author_url |-> r.author_url,
     total_score |-> r.total_score, total_prs |-> r.total_prs,
     feat_count |-> r.feat_count, fix_count |-> r.fix_count,
     chore_count |-> r.chore_count, revert_count |-> r.revert_count,
     other_count |-> r.other_count, computed_at |-> computedAt]

\* The upsert with the new score and count added to those of the row in
\* conflict.
UpsertStats_Additive(st, top, owner, repo, days, since, until, computedAt) ==
    UNION {{s \in st : \A n \in new : ~SameStatKey(s, n)} \cup
           {IF \E s \in st : SameStatKey(s, n)
            THEN [n EXCEPT !.total_score = @ + (CHOOSE s \in st : SameStatKey(s, n)).total_score,
                           !.total_prs = @ + (CHOOSE s \in st : SameStatKey(s, n)).total_prs]
            ELSE n : n \in new} :
           new \in {{StatOf(top[i], owner, repo, days, since, until, computedAt) :
                        i \in 1..Len(top)}}}

\* INSERT INTO author_stats ... ON CONFLICT(owner, repo, days, author) DO UPDATE
UpsertStats(st, top, owner, repo, days, since, until, computedAt) ==
    UNION {{s \in st : \A n \in new : ~SameStatKey(s, n)} \cup new :
           new \in {{StatOf(top[i], owner, repo, days, since, until, computedAt) :
                        i \in 1..Len(top)}}}

\* A row of author_stats as the read path selects it.
RowOfStat(s) ==
    [author |-> s.author, author_url |-> s.author_url,
     total_score |-> s.total_score, total_prs |-> s.total_prs,
     feat_count |-> s.feat_count, fix_count |-> s.fix_count,
     chore_count |-> s.chore_count, revert_count |-> s.revert_count,
     other_count |-> s.other_count]

\* computeTopAuthors aggregating over the fact table as it finds it, before
\* the derivation has run.
ComputeTopAuthors_AggregateFirst(table, fs, st, owner, repo, days, t, hasToken, resp, again) ==
    UNION {IF ~res.ok
           THEN {[table |-> res.table, facts |-> res.facts, stats |-> st,
                  result |-> [op |-> "compute", ok |-> FALSE, error |-> res.error]]}
           ELSE {[table |-> res.table, facts |-> res.facts,
                  stats |-> UpsertStats(st, top, owner, repo, days,
                                        SinceIso(t, days), IsoOf(t), IsoOf(t)),
                  result |-> [op |-> "compute", ok |-> TRUE, owner |-> owner,
                              repo |-> repo, days |-> days,
                              since |-> SinceIso(t, days), until |-> IsoOf(t),
                              top |-> top, rowsWritten |-> Len(top),
                              again |-> again]] :
                    top \in TopLists(Aggregate(fs, owner, repo,
                                               SinceIso(t, days), IsoOf(t)),
                                     TOP_N, "overall")} :
           res \in {RefreshPrFacts(table, fs, owner, repo, days, t, hasToken, resp)}}

\* computeTopAuthors(owner, repo, days) run to its end at instant t: facts are
\* re-derived first; resp is the origin's answer should the derivation ask for
\* the repository metadata. Every outcome the engine's choice among tied rows
\* allows: the three tables and what the call returns or throws.
ComputeTopAuthors(table, fs, st, owner, repo, days, t, hasToken, resp, again) ==
    UNION {IF ~res.ok
           THEN {[table |-> res.table, facts |-> res.facts, stats |-> st,
                  result |-> [op |-> "compute", ok |-> FALSE, error |-> res.error]]}
           ELSE {[table |-> res.table, facts |-> res.facts,
                  stats |-> UpsertStats(st, top, owner, repo, days,
                                        SinceIso(t, days), IsoOf(t), IsoOf(t)),
                  result |-> [op |-> "compute", ok |-> TRUE, owner |-> owner,
                              repo |-> repo, days |-> days,
                              since |-> SinceIso(t, days), until |-> IsoOf(t),
                              top |-> top, rowsWritten |-> Len(top),
                              again |-> again]] :
                    top \in TopLists(Aggregate(res.facts, owner, repo,
                                               SinceIso(t, days), IsoOf(t)),
                                     TOP_N, "overall")} :
           res \in {RefreshPrFacts(table, fs, owner, repo, days, t, hasToken, resp)}}

\* A call of computeTopAuthors whose result the caller waits for. The field
\* again of the result is history: the previous operation was this same call,
\* successful.
Compute(owner, repo, days, resp) ==
    \E out \in ComputeTopAuthors(raw, facts, stats, owner, repo, days, now, token, resp,
                                  /\ ret.op = "compute" /\ ret.ok
                                  /\ ret.owner = owner /\ ret.repo = repo
                                  /\ ret.days = days) :
        /\ raw' = out.table
        /\ facts' = out.facts
        /\ stats' = out.stats
        /\ ret' = out.result
        /\ UNCHANGED <<now, sync, token, title>>

\* The stored statistics of a repository whatever their days.
StoredStats_AnyDays(st, owner, repo, days) ==
    {s \in st : s.owner = owner /\ s.repo = repo}

\* SELECT ... FROM author_stats WHERE owner = @owner AND repo = @repo AND
\* days = @days
StoredStats(st, owner, repo, days) ==
    {s \in st : s.owner = owner /\ s.repo = repo /\ s.days = days}

ALLOWED_DAYS == {30, 60, 90}

\* The days as an endpoint would use them had it no list of allowed values.
DaysParam_AsGiven(days) == days

\* The days an endpoint works with: the requested days when allowed, else 90.
DaysParam(days) == IF days \in ALLOWED_DAYS THEN days ELSE 90

\* GET impact-authors: stored statistics when there are any, otherwise an
\* aggregation over the facts at hand, persisted when it is not empty. The
\* field requested of the result is history: the days of the query string.
Read(owner, repo, daysParam, rankBy) ==
    \E days \in {DaysParam(daysParam)} :
    \E stored \in {StoredStats(stats, owner, repo, days)} :
        /\ IF stored # {}
           THEN /\ \E top \in TopLists({RowOfStat(s) : s \in stored}, TOP_N, rankBy) :
                      ret' = [op |-> "read", ok |-> TRUE, owner |-> owner, repo |-> repo,
                              days |-> days, rankBy |-> rankBy, path |-> "stats",
                              since |-> SinceIso(now, days), until |-> IsoOf(now),
                              top |-> top, requested |-> daysParam]
                /\ stats' = stats
           ELSE \E top \in TopLists(Aggregate(facts, owner, repo,
                                              SinceIso(now, days), IsoOf(now)),
                                    TOP_N, rankBy) :
                /\ stats' = UpsertStats(stats, top, owner, repo, days,
                                        SinceIso(now, days), IsoOf(now), IsoOf(now))
                /\ ret' = [op |-> "read", ok |-> TRUE, owner |-> owner, repo |-> repo,
                           days |-> days, rankBy |-> rankBy, path |-> "facts",
                           since |-> SinceIso(now, days), until |-> IsoOf(now),
                           top |-> top, requested |-> daysParam]
        /\ UNCHANGED <<now, raw, facts, sync, token, title>>

---------------------------------------------------------------------------
(* Recompute endpoint *)

Undefined == [undefined |-> TRUE]
NoName == ""

\* The success envelope the recompute endpoint builds from what the call of
\* computeTopAuthors gave it. The call is not awaited, so what it gave is the
\* pending promise, which has none of the four properties read from it.
RecomputeEnvelope(window, rowsWritten, computedAt, topAuthors) ==
    [op |-> "recompute", ok |-> TRUE, http |-> 200, window |-> window,
     rowsWritten |-> rowsWritten, computedAt |-> computedAt,
     topAuthors |-> topAuthors]

\* POST impact-authors/refresh: the request is validated, computeTopAuthors is
\* started and the response is sent at once; the computation goes on in the
\* background. The field requested is history: the days of the request
\* body.
PostRecompute(owner, repo, days) ==
    /\ sync.pc \in {"idle", "settled"}
    /\ IF owner = NoName \/ repo = NoName
       THEN /\ ret' = [op |-> "recompute", ok |-> FALSE, http |-> 400,
                       error |-> "owner and repo are required"]
            /\ sync' = sync
       ELSE /\ ret' = RecomputeEnvelope(Undefined, Undefined, Undefined, Undefined)
            /\ sync' = [pc |-> "recompute", owner |-> owner, repo |-> repo,
                        days |-> DaysParam(days), requested |-> days]
    /\ UNCHANGED <<now, raw, facts, stats, token, title>>

\* The computation started by the recompute endpoint runs to its end: the
\* tables are written; its result or its error reaches nobody. The field
\* result is history.
SettleRecompute(resp) ==
    /\ sync.pc = "recompute"
    /\ \E out \in ComputeTopAuthors(raw, facts, stats, sync.owner, sync.repo, sync.days,
                                    now, token, resp, FALSE) :
        /\ raw' = out.table
        /\ facts' = out.facts
        /\ stats' = out.stats
        /\ sync' = [pc |-> "settled", result |-> out.result]
    /\ UNCHANGED <<now, ret, token, title>>

---------------------------------------------------------------------------
(* Discovery and Detail Fetcher *)

DEFAULT_MAX_PR_DETAILS == 5000
MAX_PR_DETAILS_CAP == 10000
LIST_PER_PAGE == 100
DEFAULT_MAX_LIST_PAGES == 200
DETAIL_CONCURRENCY == 4

\* Response headers: the two rate-limit headers as numbers, NoHeader when the
\* header is absent.
NoHeader == -1
NoRateHeaders == [remaining |-> NoHeader, reset |-> NoHeader]
NullRateLimit == [null |-> TRUE]
NoError == [kind |-> "none"]
NoSummary == [undefined |-> TRUE]

ClampNumber(value, min, max) ==
    IF value < min THEN min ELSE IF value > max THEN max ELSE value

\* githubFetchJson sending its request without a credential.
GithubFetchJson_Anonymous(hasToken, resp) == resp

\* githubFetchJson: no request is sent without a credential; otherwise the
\* origin's response resp, which carries data only when it is ok.
GithubFetchJson(hasToken, resp) ==
    IF hasToken THEN resp
    ELSE [ok |-> FALSE, status |-> 0, headers |-> NoRateHeaders, data |-> <<>>]

\* extractRateLimit: null when neither rate-limit header is present.
ExtractRateLimit(headers) ==
    IF headers.remaining = NoHeader /\ headers.reset = NoHeader
    THEN NullRateLimit
    ELSE [remaining |-> headers.remaining, reset |-> headers.reset]

\* rethrowIfRateLimit: the error raised for a failed response.
RethrowIfRateLimit(resp) ==
    IF resp.status = 403
    THEN [kind |-> "rate_limit", status |-> resp.status,
          rateLimit |-> ExtractRateLimit(resp.headers)]
    ELSE [kind |-> "error", status |-> resp.status]

\* The endpoint a listing page is stored under.
ListEndpoint(owner, repo, branch, page, since) ==
    <<"/repos/", owner, "/", repo, "/pulls?state=closed&base=">> \o branch \o
    <<"&sort=updated&direction=desc&per_page=", ToString(LIST_PER_PAGE),
      "&page=", ToString(page), "&since=", ToString(since.sec), ".",
      ToString(since.frac)>>

\* A listing response body: a JSON array of items, or something else.
ListPayload(items) == [array |-> TRUE, items |-> items]
NotAnArray == [array |-> FALSE, items |-> <<>>]
NoNumber == 0
ListItem(n, updatedAt) == [number |-> n, updated_at |-> updatedAt]

ItemsOf(data) == IF data.array THEN data.items ELSE <<>>

\* The numbers collected so far with those of a page's items added, each once.
RECURSIVE AddNumbers(_, _)
AddNumbers(prNumbers, items) ==
    CHOOSE out \in
        {IF its = <<>> THEN ns
         ELSE AddNumbers(IF Head(its).number # NoNumber
                            /\ \A i \in 1..Len(ns) : ns[i] # Head(its).number
                         THEN Append(ns, Head(its).number) ELSE ns,
                         Tail(its)) :
            ns \in {prNumbers}, its \in {items}} : TRUE

\* The first break of the listing loop, on the collected count alone.
PageBreak_EmptyOnly(items, count, maxPrDetails) == items = <<>>

\* The first break of the listing loop.
PageBreak(items, count, maxPrDetails) ==
    items = <<>> \/ count >= maxPrDetails

\* The second break with the two timestamps compared as strings.
UpdatedBeforeSince_StringOrder(items, sinceIso) ==
    /\ items # <<>>
    /\ items[Len(items)].updated_at # NullTime
    /\ ~StrLeq(sinceIso, items[Len(items)].updated_at)

\* The second break: the last item's updated_at parses and lies before since.
UpdatedBeforeSince(items, sinceIso) ==
    /\ items # <<>>
    /\ items[Len(items)].updated_at # NullTime
    /\ DateParse(items[Len(items)].updated_at) < DateParse(sinceIso)

\* Any stored detail of pull request n counts, merged or not.
DetailPresent_AnyRow(table, owner, repo, n) ==
    \E i \in 1..Len(table) : table[i].endpoint = DetailEndpoint(owner, repo, n)

\* The latest stored detail of pull request n has a merge time.
DetailPresent(table, owner, repo, n) ==
    LET rows == {i \in 1..Len(table) :
                    /\ table[i].source = "github"
                    /\ table[i].endpoint = DetailEndpoint(owner, repo, n)
                    /\ table[i].status_code = 200}
    IN /\ rows # {}
       /\ JsonTime(table[CHOOSE i \in rows : \A j \in rows : j <= i].payload,
                   "merged_at") # NullTime

\* The numbers of limited still to be fetched, in order.
ToFetch(table, owner, repo, limited) ==
    SelectSeq(limited, LAMBDA n : ~DetailPresent(table, owner, repo, n))

MinOf(a, b) == IF a < b THEN a ELSE b

\* createSummary counting every number collected as discovered.
Summary_AllCollected(s, rateLimit) ==
    [listPagesFetched |-> s.listPagesFetched,
     prsDiscoveredFromList |-> Len(s.prNumbers),
     prDetailsAlreadyPresent |-> s.prDetailsAlreadyPresent,
     prDetailsFetched |-> s.prDetailsFetched,
     prDetailsStored |-> s.prDetailsStored,
     mergedPrsWithinWindowCount |-> s.mergedPrsWithinWindowCount,
     rateLimit |-> rateLimit]

\* createSummary.
Summary(s, rateLimit) ==
    [listPagesFetched |-> s.listPagesFetched,
     prsDiscoveredFromList |-> MinOf(Len(s.prNumbers), s.maxPrDetails),
     prDetailsAlreadyPresent |-> s.prDetailsAlreadyPresent,
     prDetailsFetched |-> s.prDetailsFetched,
     prDetailsStored |-> s.prDetailsStored,
     mergedPrsWithinWindowCount |-> s.mergedPrsWithinWindowCount,
     rateLimit |-> rateLimit]

\* The sync endpoint's response when discoverAndFetch returns summary.
SyncReturned(summary) ==
    [op |-> "sync", ok |-> TRUE, http |-> 200, error |-> NoError,
     rateLimit |-> summary.rateLimit, summary |-> summary]

\* The sync endpoint's response when discoverAndFetch throws err, a rate-limit
\* error carrying summary (NoSummary when it was built without one).
SyncThrew(err, summary) ==
    IF err.kind = "rate_limit"
    THEN [op |-> "sync", ok |-> FALSE, http |-> 429, error |-> err,
          rateLimit |-> err.rateLimit, summary |-> summary]
    ELSE [op |-> "sync", ok |-> FALSE, http |-> 500, error |-> err,
          rateLimit |-> NullRateLimit, summary |-> NoSummary]

\* lastRateLimit after a successful response with the given headers.
LastRateLimit(headers, last) ==
    IF ExtractRateLimit(headers) # NullRateLimit THEN ExtractRateLimit(headers) ELSE last

\* What the history keeps of a failed response.
Failure(r) == [status |-> r.status, headers |-> r.headers]

DefaultBranchRequired == [kind |-> "default_branch required"]

\* The default branch with a fallback to "main" when the metadata has none.
DefaultBranchOf_OrMain(data) ==
    IF JsonText(data, "default_branch") = <<>> THEN <<"m", "a", "i", "n">>
    ELSE JsonText(data, "default_branch")

\* repoPreview.defaultBranch: the metadata's default_branch when it is a
\* string, and nothing otherwise.
DefaultBranchOf(data) == JsonText(data, "default_branch")

\* The local state of a discoverAndFetch call made at instant t: parameters
\* are defaulted and clamped and the look-back boundary is fixed. The field
\* failed is history: the failed responses of the run, in the order in which
\* they were caught; so is dispatched: the positions of toFetch in the order in
\* which workers took them. The field results is mapWithConcurrency's result
\* list, holding the number of the pull request each stored detail is of.
NewRun(owner, repo, days, maxPrDetails, maxListPages, t) ==
    [pc |-> "meta", owner |-> owner, repo |-> repo,
     days |-> IF days # 0 THEN days ELSE DEFAULT_DAYS,
     sinceIso |-> SinceIso(t, IF days # 0 THEN days ELSE DEFAULT_DAYS),
     maxPrDetails |->
         ClampNumber(IF maxPrDetails # 0 THEN maxPrDetails
                     ELSE DEFAULT_MAX_PR_DETAILS, 1, MAX_PR_DETAILS_CAP),
     maxListPages |->
         ClampNumber(IF maxListPages # 0 THEN maxListPages
                     ELSE DEFAULT_MAX_LIST_PAGES, 1, DEFAULT_MAX_LIST_PAGES),
     defaultBranch |-> <<>>, page |-> 0, listPagesFetched |-> 0,
     prNumbers |-> <<>>, items |-> <<>>, toFetch |-> <<>>, index |-> 0,
     inflight |-> {}, abortErr |-> NoError, failed |-> <<>>,
     lastRateLimit |-> NullRateLimit, prDetailsAlreadyPresent |-> 0,
     prDetailsFetched |-> 0, prDetailsStored |-> 0,
     mergedPrsWithinWindowCount |-> 0, error |-> NoError,
     results |-> <<>>, dispatched |-> <<>>]

\* discoverAndFetch is called, and the metadata request goes out.
StartSync(owner, repo, days, maxPrDetails, maxListPages) ==
    /\ sync.pc = "idle"
    /\ sync' = NewRun(owner, repo, days, maxPrDetails, maxListPages, now)
    /\ UNCHANGED <<now, raw, facts, stats, ret, token, title>>

\* The metadata response arrives: it is stored, and without a default branch
\* the run fails; otherwise the first listing page is requested.
FetchMeta(resp) ==
    /\ sync.pc = "meta"
    /\ \E r \in {GithubFetchJson(token, resp)} :
         IF ~r.ok
         THEN /\ sync' = [sync EXCEPT !.pc = "failed", !.error = RethrowIfRateLimit(r),
                                      !.failed = Append(@, Failure(r))]
              /\ ret' = SyncThrew(RethrowIfRateLimit(r), NoSummary)
              /\ raw' = raw
         ELSE /\ raw' = InsertRawResponse(raw, "github", RepoEndpoint(sync.owner, sync.repo),
                                          r.status, r.data, now).table
              /\ IF DefaultBranchOf(r.data) = <<>>
                 THEN /\ sync' = [sync EXCEPT !.pc = "failed",
                                     !.lastRateLimit = LastRateLimit(r.headers, @),
                                     !.error = DefaultBranchRequired]
                      /\ ret' = SyncThrew(DefaultBranchRequired, NoSummary)
                 ELSE /\ sync' = [sync EXCEPT !.pc = "list", !.page = 1,
                                     !.lastRateLimit = LastRateLimit(r.headers, @),
                                     !.defaultBranch = DefaultBranchOf(r.data)]
                      /\ ret' = ret
    /\ UNCHANGED <<now, facts, stats, token, title>>

\* The state after the listing loop with one worker per number to fetch.
AfterListing_AllAtOnce(s, table, items, nums, rateLimit) ==
    CHOOSE out \in
        {[s EXCEPT !.pc = IF toFetch = <<>> THEN "done" ELSE "pool",
                   !.listPagesFetched = @ + 1, !.prNumbers = nums, !.items = items,
                   !.lastRateLimit = rateLimit,
                   !.toFetch = toFetch,
                   !.index = Len(toFetch),
                   !.inflight = 1..Len(toFetch),
                   !.results = [i \in 1..Len(toFetch) |-> NoNumber],
                   !.dispatched = [i \in 1..Len(toFetch) |-> i],
                   !.prDetailsAlreadyPresent = MinOf(Len(nums), s.maxPrDetails) - Len(toFetch)] :
            toFetch \in {ToFetch(table, s.owner, s.repo,
                                 SubSeq(nums, 1, MinOf(Len(nums), s.maxPrDetails)))}} : TRUE

\* The state after the listing loop has ended with numbers nums collected:
\* details already present are skipped and the pool's first fetches go out.
AfterListing(s, table, items, nums, rateLimit) ==
    CHOOSE out \in
        {[s EXCEPT !.pc = IF toFetch = <<>> THEN "done" ELSE "pool",
                   !.listPagesFetched = @ + 1, !.prNumbers = nums, !.items = items,
                   !.lastRateLimit = rateLimit,
                   !.toFetch = toFetch,
                   !.index = MinOf(DETAIL_CONCURRENCY, Len(toFetch)),
                   !.inflight = 1..MinOf(DETAIL_CONCURRENCY, Len(toFetch)),
                   !.results = [i \in 1..Len(toFetch) |-> NoNumber],
                   !.dispatched = [i \in 1..MinOf(DETAIL_CONCURRENCY, Len(toFetch)) |-> i],
                   !.prDetailsAlreadyPresent = MinOf(Len(nums), s.maxPrDetails) - Len(toFetch)] :
            toFetch \in {ToFetch(table, s.owner, s.repo,
                                 SubSeq(nums, 1, MinOf(Len(nums), s.maxPrDetails)))}} : TRUE

\* The response to the request for listing page sync.page arrives. What
\* githubFetchJson throws is never a RateLimitExceededError, so the catch
\* clause always passes the error to rethrowIfRateLimit, which attaches no
\* summary.
FetchPage(resp) ==
    /\ sync.pc = "list"
    /\ \E r \in {GithubFetchJson(token, resp)} :
         IF ~r.ok
         THEN /\ sync' = [sync EXCEPT !.pc = "failed", !.error = RethrowIfRateLimit(r),
                                      !.failed = Append(@, Failure(r))]
              /\ ret' = SyncThrew(RethrowIfRateLimit(r), NoSummary)
              /\ raw' = raw
         ELSE \E items \in {ItemsOf(r.data)} :
              \E nums \in {AddNumbers(sync.prNumbers, items)} :
              \E table \in {InsertRawResponse(raw, "github",
                               ListEndpoint(sync.owner, sync.repo, sync.defaultBranch,
                                            sync.page, sync.sinceIso),
                               r.status, r.data, now).table} :
                /\ raw' = table
                /\ IF \/ PageBreak(items, Len(nums), sync.maxPrDetails)
                      \/ UpdatedBeforeSince(items, sync.sinceIso)
                      \/ sync.page + 1 > sync.maxListPages
                   THEN /\ sync' = AfterListing(sync, table, items, nums,
                                                LastRateLimit(r.headers, sync.lastRateLimit))
                        /\ ret' = IF sync'.pc = "done"
                                  THEN SyncReturned(Summary(sync', sync'.lastRateLimit))
                                  ELSE ret
                   ELSE /\ sync' = [sync EXCEPT !.page = @ + 1, !.listPagesFetched = @ + 1,
                                        !.lastRateLimit = LastRateLimit(r.headers, @),
                                        !.prNumbers = nums, !.items = items]
                        /\ ret' = ret
    /\ UNCHANGED <<now, facts, stats, token, title>>

\* The local state of a second discoverAndFetch call, made while the call
\* whose state is sync is waiting for a response. The field other holds the
\* state of the call that is not running.
WithOther(run, other) ==
    [f \in DOMAIN run \cup {"other"} |-> IF f = "other" THEN other ELSE run[f]]
WithoutOther(run) == [f \in DOMAIN run \ {"other"} |-> run[f]]

\* discoverAndFetch is called while an earlier call is waiting at an await.
StartOverlapping(owner, repo, days, maxPrDetails, maxListPages) ==
    /\ sync.pc \in {"meta", "list", "pool", "done"}
    /\ "other" \notin DOMAIN sync
    /\ sync' = WithOther(NewRun(owner, repo, days, maxPrDetails, maxListPages, now), sync)
    /\ UNCHANGED <<now, raw, facts, stats, ret, token, title>>

\* The event loop resumes the other of two calls: each of FetchMeta, FetchPage
\* and FinishDetail runs from one await to the next without interruption.
Resume ==
    /\ "other" \in DOMAIN sync
    /\ sync.other.pc \in {"meta", "list", "pool"}
    /\ sync' = WithOther(sync.other, WithoutOther(sync))
    /\ UNCHANGED <<now, raw, facts, stats, ret, token, title>>

\* A worker that takes the position last taken, the counter read but not moved.
WorkerNext_SamePosition(ok, abortErr, index, len) ==
    IF ok /\ abortErr = NoError /\ index < len THEN {index} ELSE {}

\* A worker that goes on regardless of a recorded failure.
WorkerNext_IgnoringAbort(ok, abortErr, index, len) ==
    IF ok /\ index < len THEN {index + 1} ELSE {}

\* The worker loop after a fetch: the position the worker takes next, if any.
\* It returns after its own failure, when a failure is recorded, and when no
\* item is left.
WorkerNext(ok, abortErr, index, len) ==
    IF ok /\ abortErr = NoError /\ index < len THEN {index + 1} ELSE {}

\* The detail fetch in flight for the i-th number to fetch completes. On
\* success its worker takes the next number unless a failure was recorded; on
\* failure the error is recorded and the worker returns. The run ends when no
\* worker is left.
FinishDetail(i, resp) ==
    /\ sync.pc = "pool"
    /\ i \in sync.inflight
    /\ \E r \in {GithubFetchJson(token, resp)} :
       \E ins \in {IF r.ok
                   THEN InsertRawResponse(raw, "github",
                            DetailEndpoint(sync.owner, sync.repo, sync.toFetch[i]),
                            r.status, r.data, now)
                   ELSE [table |-> raw, inserted |-> FALSE, id |-> 0]} :
       \E next \in {WorkerNext(r.ok, sync.abortErr, sync.index, Len(sync.toFetch))} :
       \E s \in {[sync EXCEPT
                    !.inflight = (@ \ {i}) \cup next,
                    !.index = @ + Cardinality(next),
                    !.results = IF r.ok THEN [@ EXCEPT ![i] = JsonNumber(r.data, "number")]
                                ELSE @,
                    !.dispatched = IF next = {} THEN @
                                   ELSE Append(@, CHOOSE n \in next : TRUE),
                    !.abortErr = IF r.ok THEN @ ELSE RethrowIfRateLimit(r),
                    !.failed = IF r.ok THEN @ ELSE Append(@, Failure(r)),
                    !.lastRateLimit = IF r.ok THEN LastRateLimit(r.headers, @) ELSE @,
                    !.prDetailsFetched = IF r.ok THEN @ + 1 ELSE @,
                    !.prDetailsStored = IF ins.inserted THEN @ + 1 ELSE @,
                    !.mergedPrsWithinWindowCount =
                        IF /\ r.ok
                           /\ JsonTime(r.data, "merged_at") # NullTime
                           /\ DateParse(JsonTime(r.data, "merged_at")) >= DateParse(sync.sinceIso)
                        THEN @ + 1 ELSE @]} :
         /\ raw' = ins.table
         /\ IF s.inflight # {}
            THEN sync' = s /\ ret' = ret
            ELSE IF s.abortErr = NoError
            THEN /\ sync' = [s EXCEPT !.pc = "done"]
                 /\ ret' = SyncReturned(Summary(s, s.lastRateLimit))
            ELSE /\ sync' = [s EXCEPT !.pc = "failed", !.error = s.abortErr]
                 /\ ret' = SyncThrew(s.abortErr,
                                     IF s.abortErr.kind = "rate_limit"
                                     THEN Summary(s, s.abortErr.rateLimit) ELSE NoSummary)
    /\ UNCHANGED <<now, facts, stats, token, title>>

---------------------------------------------------------------------------
(* Page ingester *)

DEFAULT_PER_PAGE == 100
MAX_PER_PAGE == 100

\* The endpoint ingestPullRequests stores a page under.
IngestEndpoint(owner, repo, perPage, page, since) ==
    <<"/repos/", owner, "/", repo,
      "/pulls?state=all&sort=updated&direction=desc&per_page=", ToString(perPage),
      "&page=", ToString(page), "&since=", ToString(since.sec), ".",
      ToString(since.frac)>>

\* The local state of ingestPullRequests when its loop is entered: days and
\* perPage are defaulted (0 stands for an absent parameter), perPage is
\* clamped, and the look-back boundary is fixed. The field fetched is
\* history: the bodies of the pages received, in order.
NewIngest(owner, repo, days, perPage, t) ==
    LET perPageInput == IF perPage # 0 THEN perPage ELSE DEFAULT_PER_PAGE IN
    [pc |-> "ingest", owner |-> owner, repo |-> repo,
     days |-> IF days # 0 THEN days ELSE DEFAULT_DAYS,
     perPage |-> MinOf(IF perPageInput < 1 THEN 1 ELSE perPageInput, MAX_PER_PAGE),
     sinceMs |-> t - (IF days # 0 THEN days ELSE DEFAULT_DAYS) * MS_PER_DAY,
     sinceIso |-> SinceIso(t, IF days # 0 THEN days ELSE DEFAULT_DAYS),
     page |-> 1, pagesFetched |-> 0, prsFetchedTotal |-> 0, storedCount |-> 0,
     skippedDuplicatesCount |-> 0, stoppedEarly |-> FALSE, fetched |-> <<>>]

\* The loop without its second break.
LastItemOlder_Never(items, sinceMs) == FALSE

\* The loop's second break: the last item's updated_at parses to an instant
\* before the boundary.
LastItemOlder(items, sinceMs) ==
    /\ items[Len(items)].updated_at # NullTime
    /\ DateParse(items[Len(items)].updated_at) < sinceMs

\* The summary ingestPullRequests returns.
IngestSummary(s) ==
    [owner |-> s.owner, repo |-> s.repo, days |-> s.days, sinceIso |-> s.sinceIso,
     pagesFetched |-> s.pagesFetched, prsFetchedTotal |-> s.prsFetchedTotal,
     storedCount |-> s.storedCount,
     skippedDuplicatesCount |-> s.skippedDuplicatesCount,
     stoppedEarly |-> s.stoppedEarly]

IngestReturned(summary) == [op |-> "ingest", ok |-> TRUE, summary |-> summary]
IngestThrew(err) == [op |-> "ingest", ok |-> FALSE, error |-> err]

\* ingestPullRequests is called, and the request for the first page goes out.
StartIngest(owner, repo, days, perPage) ==
    /\ sync.pc = "idle"
    /\ sync' = NewIngest(owner, repo, days, perPage, now)
    /\ UNCHANGED <<now, raw, facts, stats, ret, token, title>>

\* One turn of the loop: the response to the request for the current page
\* arrives. A failed request and a body that is not an array end the call with
\* an error; otherwise the page is stored or skipped as a duplicate and
\* counted, and the loop ends on an empty page or on a last item older than
\* the boundary, or else asks for the next page.
IngestPage(resp) ==
    /\ sync.pc = "ingest"
    /\ \E r \in {GithubFetchJson(token, resp)} :
         IF ~r.ok
         THEN /\ sync' = [sync EXCEPT !.pc = "failed"]
              /\ ret' = IngestThrew([kind |-> "error", status |-> r.status])
              /\ raw' = raw
         ELSE IF ~r.data.array
         THEN /\ sync' = [sync EXCEPT !.pc = "failed"]
              /\ ret' = IngestThrew([kind |-> "unexpected shape", page |-> sync.page])
              /\ raw' = raw
         ELSE \E items \in {r.data.items} :
              \E ins \in {InsertRawResponse(raw, "github",
                             IngestEndpoint(sync.owner, sync.repo, sync.perPage,
                                            sync.page, sync.sinceIso),
                             r.status, r.data, now)} :
              \E s \in {[sync EXCEPT
                            !.storedCount = IF ins.inserted THEN @ + 1 ELSE @,
                            !.skippedDuplicatesCount = IF ins.inserted THEN @ ELSE @ + 1,
                            !.pagesFetched = @ + 1,
                            !.prsFetchedTotal = @ + Len(items),
                            !.fetched = Append(@, r.data)]} :
                /\ raw' = ins.table
                /\ IF items = <<>>
                   THEN /\ sync' = [s EXCEPT !.pc = "done"]
                        /\ ret' = IngestReturned(IngestSummary(sync'))
                   ELSE IF LastItemOlder(items, sync.sinceMs)
                   THEN /\ sync' = [s EXCEPT !.pc = "done", !.stoppedEarly = TRUE]
                        /\ ret' = IngestReturned(IngestSummary(sync'))
                   ELSE /\ sync' = [s EXCEPT !.page = @ + 1]
                        /\ ret' = ret
    /\ UNCHANGED <<now, facts, stats, token, title>>

\* The caller takes the outcome; the next call can be made.
IngestSettled ==
    /\ sync.pc \in {"done", "failed"}
    /\ sync' = Idle
    /\ UNCHANGED <<now, raw, facts, stats, ret, token, title>>

---------------------------------------------------------------------------
(* Specification of the raw store alone *)

\* The instants the clock visits: around the start and around each multiple
\* of the dedupe window after it, MaxJitter ticks either side.
StoreInstants ==
    {StartTicks + w * DedupeWindowTicks + j :
        w \in 0..MaxWindows, j \in (-MaxJitter)..MaxJitter} \ (0..(StartTicks - 1))

\* The calls tried: one triple and three that differ from it in the source, in
\* the endpoint or in the payload alone.
StoreInputs ==
    LET repoEp == <<"/repos/", "o", "/", "r">>
        pullEp == <<"/repos/", "o", "/", "r", "/pulls/", "1">>
        withBranch == [default_branch |-> <<"m">>]
        noBranch == [default_branch |-> <<>>]
    IN {<<"github", repoEp, withBranch>>, <<"manual", repoEp, withBranch>>,
        <<"github", pullEp, withBranch>>, <<"github", repoEp, noBranch>>}

InitStore ==
    /\ now = StartTicks
    /\ raw = <<>>
    /\ facts = {}
    /\ stats = {}
    /\ ret = NoRet
    /\ sync = Idle
    /\ token = TRUE
    /\ title = <<>>

NextStore ==
    \/ \E t \in StoreInstants : Advance(t)
    \/ \E c \in StoreInputs : Len(raw) < MaxRaw /\ Store(c[1], c[2], 200, c[3])

SpecStore == InitStore /\ [][NextStore]_vars

---------------------------------------------------------------------------
(* Specification of fact derivation over a growing raw store *)

OWNER == "o"
REPO == "r"
MAIN == <<"m">>
DEV == <<"d">>
ALICE == <<"a">>
BOB == <<"b">>
TFeat == <<"f", "e", "a", "t", ":", " ", "x">>
TFix == <<"F", "I", "X", "(", "a", ")", ":">>

\* Merge times: a few seconds ago and 40 days ago.
Recent == ApiTime(SecOf(StartTicks) - 10)
MidAge == ApiTime(SecOf(StartTicks - 40 * MS_PER_DAY))

\* The origin's answers to GET /repos/{owner}/{repo}.
MetaResponses ==
    {[ok |-> TRUE, status |-> 200, data |-> RepoPayload(MAIN)],
     [ok |-> TRUE, status |-> 200, data |-> RepoPayload(<<>>)],
     [ok |-> FALSE, status |-> 404, data |-> RepoPayload(<<>>)]}

\* Detail payloads the origin serves for pull requests 1 and 2.
DeriveDetails ==
    LET u1 == PrUrl(OWNER, REPO, 1)
        u2 == PrUrl(OWNER, REPO, 2)
    IN {DetailPayload(1, Recent, MAIN, u1, TFeat, ALICE),
        DetailPayload(1, Recent, MAIN, u1, TFix, BOB),
        DetailPayload(1, Recent, DEV, u1, TFeat, ALICE),
        DetailPayload(1, Recent, MAIN, u1, <<>>, ALICE),
        DetailPayload(2, MidAge, MAIN, u2, TFeat, BOB),
        DetailPayload(2, NullTime, MAIN, u2, TFix, ALICE)}

DeriveDays == {30, 90}
DeriveInstants == {StartTicks + 1}

InitDerive ==
    /\ now = StartTicks
    /\ raw = <<>>
    /\ facts = {}
    /\ stats = {}
    /\ ret = NoRet
    /\ sync = Idle
    /\ token = TRUE
    /\ title = <<>>

NextDerive ==
    \/ \E t \in DeriveInstants : Advance(t)
    \/ \E p \in DeriveDetails :
          /\ Store("github", DetailEndpoint(OWNER, REPO, p.number), 200, p)
          /\ Len(raw') <= MaxRawDerive
    \/ \E d \in DeriveDays, resp \in MetaResponses :
          /\ Derive(OWNER, REPO, d, resp)
          /\ Len(raw') <= MaxRawDerive

SpecDerive == InitDerive /\ [][NextDerive]_vars

---------------------------------------------------------------------------
(* Specification of classification over titles *)

\* deriveKind(title) is applied to the title at hand.
Classify ==
    /\ ret' = [op |-> "kind", title |-> title,
               kind |-> DeriveKind(title).kind, points |-> DeriveKind(title).points]
    /\ UNCHANGED <<now, raw, facts, stats, sync, token, title>>

IsUpper(c) == LowerChar(c) # c
IsLetter(c) == IsUpper(c) \/ UpperChar(c) # c
UpperCount(s) == Cardinality({i \in 1..Len(s) : IsUpper(s[i])})

\* The title with the case of its i-th character changed; the new title is
\* not classified yet.
FlipCase(i) ==
    /\ i \in 1..Len(title)
    /\ IsLetter(title[i])
    /\ title' = [title EXCEPT ![i] = IF IsUpper(@) THEN LowerChar(@) ELSE UpperChar(@)]
    /\ UpperCount(title') <= MaxUpperCase
    /\ ret' = NoRet
    /\ UNCHANGED <<now, raw, facts, stats, sync, token>>

\* Index of the first colon of s, Len(s) + 1 when it has none.
ColonAt(s) ==
    IF \E i \in 1..Len(s) : s[i] = ":"
    THEN CHOOSE i \in 1..Len(s) : s[i] = ":" /\ \A j \in 1..(i - 1) : s[j] # ":"
    ELSE Len(s) + 1

\* The title with its i-th character, one after the first colon, replaced.
EditAfterColon(i, c) ==
    /\ i \in 1..Len(title)
    /\ i > ColonAt(title)
    /\ c # title[i]
    /\ title' = [title EXCEPT ![i] = c]
    /\ ret' = NoRet
    /\ UNCHANGED <<now, raw, facts, stats, sync, token>>

KindLeads == {<<>>, <<" ">>}
KindWords ==
    {FEAT, FIX, CHORE, REVERT, <<>>, <<"f", "e", "a">>, <<"x", "f", "i", "x">>,
     <<"F", "e", "a", "T">>, <<"R", "E", "v", "e", "r", "t">>}
KindRests ==
    {<<>>, <<":">>, <<" ", ":", "f">>, <<"(", "a", ")", ":", "x">>, <<"e", "r">>}
KindTitles == {l \o w \o r : l \in KindLeads, w \in KindWords, r \in KindRests}
TailChars == {":", "X"}

InitKind ==
    /\ now = StartTicks
    /\ raw = <<>>
    /\ facts = {}
    /\ stats = {}
    /\ ret = NoRet
    /\ sync = Idle
    /\ token = TRUE
    /\ title \in KindTitles

NextKind ==
    \/ Classify
    \/ \E i \in 1..Len(title) : FlipCase(i)
    \/ \E i \in 1..Len(title), c \in TailChars : EditAfterColon(i, c)

SpecKind == InitKind /\ [][NextKind]_vars

---------------------------------------------------------------------------
(* Specification of aggregation over stored pull requests *)

TChore == <<"c", "h", "o", "r", "e">>
CAROL == <<"c">>
ERIN == <<"e">>
FRANK == <<"f">>
HEIDI == <<"h">>
TOther == <<"x", ":", " ", "f", "i", "x">>
TRevert == <<"R", "e", "v", "e", "r", "t", " ", "a">>
XBOT == <<"x", "[", "b", "o", "t", "]">>
ABOT == <<"a", "[", "B", "o", "T", "]">>

\* Merge times at the edges of the 30-day window of an aggregation run at
\* StartTicks: its first second, the second before, and its last second.
AtSince == ApiTime(SecOf(StartTicks - 30 * MS_PER_DAY))
BeforeSince == ApiTime(SecOf(StartTicks - 30 * MS_PER_DAY) - 1)
AtNow == ApiTime(SecOf(StartTicks))
EdgeTimes == {Recent, AtSince, BeforeSince, AtNow}

AggDetail(n, mergedAt, ttl, login) ==
    DetailPayload(n, mergedAt, MAIN, PrUrl(OWNER, REPO, n), ttl, login)

\* The raw row of a response fetched in the second of StartTicks.
AggRow0(endpoint, payload) == NewRow("github", endpoint, 200, payload, StartTicks)

\* A raw store: the repository metadata and the details of nine merged pull
\* requests by six people and two bots, the first merged at mergedAt.
AggStore(mergedAt) ==
    LET ds == <<AggDetail(1, mergedAt, TFeat, ALICE), AggDetail(2, Recent, TFix, BOB),
                AggDetail(3, Recent, TChore, CAROL), AggDetail(4, Recent, TChore, ERIN),
                AggDetail(5, MidAge, TChore, ERIN), AggDetail(6, Recent, TOther, FRANK),
                AggDetail(7, Recent, TRevert, HEIDI), AggDetail(8, Recent, TFeat, XBOT),
                AggDetail(9, Recent, TFeat, ABOT)>>
    IN <<AggRow0(RepoEndpoint(OWNER, REPO), RepoPayload(MAIN))>> \o
       [i \in 1..Len(ds) |-> AggRow0(DetailEndpoint(OWNER, REPO, i), ds[i])]

\* Pull requests of the first two people, the first merged in the second of
\* StartTicks; the repository metadata is not stored.
AggStoreNoMeta ==
    <<AggRow0(DetailEndpoint(OWNER, REPO, 1), AggDetail(1, AtNow, TFeat, ALICE)),
      AggRow0(DetailEndpoint(OWNER, REPO, 2), AggDetail(2, Recent, TFix, BOB))>>

AggStores == {AggStore(m) : m \in EdgeTimes} \cup {AggStoreNoMeta}

MaxAggTicks == 1
AggInstants == (StartTicks + 1)..(StartTicks + MaxAggTicks)
AggDays == {30, 90}
AggRanks == {"revert"}
AggResponses ==
    {[ok |-> TRUE, status |-> 200, data |-> RepoPayload(MAIN)],
     [ok |-> FALSE, status |-> 404, data |-> RepoPayload(<<>>)]}

InitAgg ==
    /\ now = StartTicks
    /\ raw \in AggStores
    /\ facts = {}
    /\ stats = {}
    /\ ret = NoRet
    /\ sync = Idle
    /\ token = TRUE
    /\ title = <<>>

NextAgg ==
    \/ \E t \in AggInstants : Advance(t)
    \/ \E d \in AggDays, resp \in AggResponses : Compute(OWNER, REPO, d, resp)
    \/ \E d \in AggDays, k \in AggRanks : Read(OWNER, REPO, d, k)

SpecAgg == InitAgg /\ [][NextAgg]_vars

---------------------------------------------------------------------------
(* Specification of one discovery run *)

MaxSyncPages == 3

\* Listing pages the origin may serve; update times lie well inside the
\* 30-day window, at its first second, or one second before it.
SyncPages ==
    {ListPayload(<<>>),
     ListPayload(<<ListItem(1, Recent), ListItem(2, Recent)>>),
     ListPayload(<<ListItem(2, Recent), ListItem(3, AtSince)>>),
     ListPayload(<<ListItem(3, Recent), ListItem(1, BeforeSince)>>),
     ListPayload(<<ListItem(1, BeforeSince), ListItem(NoNumber, Recent)>>),
     ListPayload(<<ListItem(3, NullTime)>>),
     ListPayload(<<ListItem(1, Recent), ListItem(2, Recent), ListItem(3, Recent),
                   ListItem(4, Recent), ListItem(5, Recent)>>),
     NotAnArray}

\* Responses of the origin: successes carry the rate-limit headers of a
\* budget not yet used up; failures are a 403 or a 429 with the headers of an
\* exhausted budget, a 403 without rate-limit headers, and a 500.
RateHeaders == [remaining |-> 9, reset |-> 60]
ExhaustedHeaders == [remaining |-> 0, reset |-> 60]
Ok(data) == [ok |-> TRUE, status |-> 200, headers |-> RateHeaders, data |-> data]
RateLimited == [ok |-> FALSE, status |-> 403, headers |-> ExhaustedHeaders, data |-> <<>>]
TooManyRequests == [ok |-> FALSE, status |-> 429, headers |-> ExhaustedHeaders, data |-> <<>>]
Forbidden == [ok |-> FALSE, status |-> 403, headers |-> NoRateHeaders, data |-> <<>>]
ServerError == [ok |-> FALSE, status |-> 500, headers |-> NoRateHeaders, data |-> <<>>]
SyncFailures == {RateLimited, TooManyRequests, Forbidden, ServerError}

SyncMetaResponses ==
    {Ok(RepoPayload(MAIN)), Ok(RepoPayload(<<>>))} \cup SyncFailures
SyncPageResponses == {Ok(p) : p \in SyncPages} \cup SyncFailures
SyncDetailResponses(n) ==
    {Ok(AggDetail(n, Recent, TFeat, ALICE)), RateLimited, ServerError}

SyncDays == {30}
SyncMaxDetails == {0, 2}
SyncMaxPages == {1, MaxSyncPages}
SyncInstants == {StartTicks + 1}

\* Raw stores before the run: empty, or holding the detail of pull request 2
\* from when it was not yet merged and the detail of the merged pull request 1.
SyncStores ==
    {<<>>,
     <<AggRow0(DetailEndpoint(OWNER, REPO, 2), AggDetail(2, NullTime, TFeat, ALICE)),
       AggRow0(DetailEndpoint(OWNER, REPO, 1), AggDetail(1, Recent, TFeat, ALICE))>>}

InitSync ==
    /\ now = StartTicks
    /\ raw \in SyncStores
    /\ facts = {}
    /\ stats = {}
    /\ ret = NoRet
    /\ sync = Idle
    /\ token \in BOOLEAN
    /\ title = <<>>

NextSync ==
    \/ \E t \in SyncInstants : sync.pc = "idle" /\ Advance(t)
    \/ \E d \in SyncDays, m \in SyncMaxDetails, p \in SyncMaxPages :
          StartSync(OWNER, REPO, d, m, p)
    \/ \E resp \in SyncMetaResponses : FetchMeta(resp)
    \/ \E resp \in SyncPageResponses : FetchPage(resp)
    \/ \E i \in 1..(DETAIL_CONCURRENCY + 1) :
          /\ sync.pc = "pool"
          /\ i \in sync.inflight
          /\ \E resp \in SyncDetailResponses(sync.toFetch[i]) : FinishDetail(i, resp)

SpecSync == InitSync /\ [][NextSync]_vars

---------------------------------------------------------------------------
(* Specification of recomputation through the endpoint *)

\* Raw stores: six people's pull requests with the repository metadata, and
\* two people's without it. Days asked for: two allowed values and one that
\* is not. The origin serves the metadata or answers 404.
RecomputeStores == {AggStore(Recent), AggStoreNoMeta}
RecomputeDays == {30, 90, 7}
RecomputeOwners == {OWNER, NoName}

InitRecompute ==
    /\ now = StartTicks
    /\ raw \in RecomputeStores
    /\ facts = {}
    /\ stats = {}
    /\ ret = NoRet
    /\ sync = Idle
    /\ token = TRUE
    /\ title = <<>>

NextRecompute ==
    \/ \E t \in AggInstants : sync.pc # "recompute" /\ Advance(t)
    \/ \E o \in RecomputeOwners, d \in RecomputeDays : PostRecompute(o, REPO, d)
    \/ \E resp \in AggResponses : SettleRecompute(resp)
    \/ \E d \in RecomputeDays, k \in AggRanks : Read(OWNER, REPO, d, k)

SpecRecompute == InitRecompute /\ [][NextRecompute]_vars

---------------------------------------------------------------------------
(* Specification of a discovery run followed by fact derivation *)

\* The origin never fails: it serves the metadata, one listing page of two or
\* of five pull requests, and the detail of each.
PipelinePages ==
    {ListPayload(<<ListItem(1, Recent), ListItem(2, Recent)>>),
     ListPayload(<<ListItem(1, Recent), ListItem(2, Recent), ListItem(3, Recent),
                   ListItem(4, Recent), ListItem(5, Recent)>>)}
PipelineDetail(n) ==
    AggDetail(n, Recent, IF n = 2 THEN TFix ELSE TFeat, IF n = 3 THEN BOB ELSE ALICE)

InitPipeline ==
    /\ now = StartTicks
    /\ raw = <<>>
    /\ facts = {}
    /\ stats = {}
    /\ ret = NoRet
    /\ sync = Idle
    /\ token = TRUE
    /\ title = <<>>

NextPipeline ==
    \/ StartSync(OWNER, REPO, 30, 0, 1)
    \/ FetchMeta(Ok(RepoPayload(MAIN)))
    \/ \E p \in PipelinePages : FetchPage(Ok(p))
    \/ \E i \in 1..5 :
          /\ sync.pc = "pool"
          /\ i \in sync.inflight
          /\ FinishDetail(i, Ok(PipelineDetail(sync.toFetch[i])))
    \/ sync.pc = "done" /\ Derive(OWNER, REPO, 30, Ok(RepoPayload(MAIN)))

SpecPipeline == InitPipeline /\ [][NextPipeline]_vars

---------------------------------------------------------------------------
(* Specification of two overlapping discovery runs followed by fact derivation *)

\* The second call may come half a second or more than the dedupe window after
\* the first.
OverlapInstants == {StartTicks + 1, StartTicks + DedupeWindowTicks + TicksPerSec}

\* The origin data: one listing page of three pull requests.
OverlapPage ==
    ListPayload(<<ListItem(1, Recent), ListItem(2, Recent), ListItem(3, Recent)>>)

InitOverlap == InitPipeline

NextOverlap ==
    \/ \E t \in OverlapInstants :
          /\ sync.pc \in {"meta", "list", "pool", "done"}
          /\ "other" \notin DOMAIN sync
          /\ Advance(t)
    \/ StartSync(OWNER, REPO, 30, 0, 1)
    \/ StartOverlapping(OWNER, REPO, 30, 0, 1)
    \/ Resume
    \/ FetchMeta(Ok(RepoPayload(MAIN)))
    \/ FetchPage(Ok(OverlapPage))
    \/ \E i \in 1..3 :
          /\ sync.pc = "pool"
          /\ i \in sync.inflight
          /\ FinishDetail(i, Ok(PipelineDetail(sync.toFetch[i])))
    \/ /\ sync.pc = "done"
       /\ "other" \in DOMAIN sync
       /\ sync.other.pc = "done"
       /\ Derive(OWNER, REPO, 30, Ok(RepoPayload(MAIN)))

SpecOverlap == InitOverlap /\ [][NextOverlap]_vars

---------------------------------------------------------------------------
(* Specification of derivation and aggregation with metadata that may lack a default branch *)

MaxRawGap == 5

\* The origin serves metadata with a default branch or without one, or
\* answers 404.
GapResponses ==
    {Ok(RepoPayload(MAIN)), Ok(RepoPayload(<<>>)), ServerError,
     [ok |-> FALSE, status |-> 404, headers |-> NoRateHeaders, data |-> <<>>]}

\* Rows a discovery run may have stored meanwhile: metadata without a default
\* branch, and the detail of a third pull request.
GapRows ==
    {<<RepoEndpoint(OWNER, REPO), RepoPayload(<<>>)>>,
     <<DetailEndpoint(OWNER, REPO, 3), AggDetail(3, Recent, TChore, CAROL)>>}

InitGap ==
    /\ now = StartTicks
    /\ raw = AggStoreNoMeta
    /\ facts = {}
    /\ stats = {}
    /\ ret = NoRet
    /\ sync = Idle
    /\ token = TRUE
    /\ title = <<>>

NextGap ==
    \/ \E row \in GapRows :
          /\ Store("github", row[1], 200, row[2])
          /\ Len(raw') <= MaxRawGap
    \/ \E d \in AggDays, resp \in GapResponses :
          /\ Derive(OWNER, REPO, d, resp)
          /\ Len(raw') <= MaxRawGap
    \/ \E d \in AggDays, resp \in GapResponses :
          /\ Compute(OWNER, REPO, d, resp)
          /\ Len(raw') <= MaxRawGap

SpecGap == InitGap /\ [][NextGap]_vars

---------------------------------------------------------------------------
(* Specification of the whole pipeline on one store *)

MaxRawAll == 6

\* The origin's listing: one page with the pull requests 3 and 4.
AllPage == ListPayload(<<ListItem(3, Recent), ListItem(4, Recent)>>)

NextAll ==
    \/ \E row \in GapRows :
          /\ Store("github", row[1], 200, row[2])
          /\ Len(raw') <= MaxRawAll
    \/ \E d \in AggDays, resp \in GapResponses :
          /\ Derive(OWNER, REPO, d, resp)
          /\ Len(raw') <= MaxRawAll
    \/ \E resp \in GapResponses :
          /\ Compute(OWNER, REPO, 30, resp)
          /\ Len(raw') <= MaxRawAll
    \/ Read(OWNER, REPO, 30, "overall")
    \/ StartSync(OWNER, REPO, 30, 0, 1)
    \/ \E resp \in {Ok(RepoPayload(MAIN)), ServerError} :
          /\ FetchMeta(resp)
          /\ Len(raw') <= MaxRawAll
    \/ \E resp \in {Ok(AllPage), RateLimited} :
          /\ FetchPage(resp)
          /\ Len(raw') <= MaxRawAll
    \/ \E i \in 1..2 :
          /\ sync.pc = "pool"
          /\ i \in sync.inflight
          /\ \E resp \in {Ok(PipelineDetail(sync.toFetch[i])), ServerError} :
                FinishDetail(i, resp)
          /\ Len(raw') <= MaxRawAll

SpecAll == InitGap /\ [][NextAll]_vars

---------------------------------------------------------------------------
(* Specification of recomputation while pull requests keep arriving *)

DAVE == <<"d", "a", "v", "e">>

\* Details a discovery run may store meanwhile: two more merged pull requests,
\* by a seventh person.
StaleRows ==
    {<<DetailEndpoint(OWNER, REPO, 10), AggDetail(10, Recent, TFeat, DAVE)>>,
     <<DetailEndpoint(OWNER, REPO, 11), AggDetail(11, Recent, TFix, DAVE)>>}
StaleRanks == {"overall", "other"}

InitStale ==
    /\ now = StartTicks
    /\ raw = AggStore(Recent)
    /\ facts = {}
    /\ stats = {}
    /\ ret = NoRet
    /\ sync = Idle
    /\ token = TRUE
    /\ title = <<>>

NextStale ==
    \/ \E row \in StaleRows : Store("github", row[1], 200, row[2])
    \/ \E d \in AggDays : Compute(OWNER, REPO, d, Ok(RepoPayload(MAIN)))
    \/ \E d \in AggDays, k \in StaleRanks : Read(OWNER, REPO, d, k)

SpecStale == InitStale /\ [][NextStale]_vars

---------------------------------------------------------------------------
(* Specification of fact derivation over a store shared by several repositories *)

\* Repository names: r, the same in upper case, and an underscore (at whose
\* place the other two have a letter).
IsolationRepos == {"r", "R", "_"}
DerivedRepos == {"r", "_"}
MaxRawIsolation == 4

IsolationDetail(repo) ==
    DetailPayload(1, Recent, MAIN, PrUrl(OWNER, repo, 1), TFeat, ALICE)

NextIsolation ==
    \/ \E repo \in IsolationRepos :
          /\ Store("github", DetailEndpoint(OWNER, repo, 1), 200, IsolationDetail(repo))
          /\ Len(raw') <= MaxRawIsolation
    \/ \E repo \in DerivedRepos, d \in DeriveDays :
          /\ Derive(OWNER, repo, d, Ok(RepoPayload(MAIN)))
          /\ Len(raw') <= MaxRawIsolation

SpecIsolation == InitDerive /\ [][NextIsolation]_vars

---------------------------------------------------------------------------
(* Specification of the page ingester against an origin with finitely many pages *)

\* The origin has at most MaxIngestPages pages with items in them.
MaxIngestPages == 2
MaxRawIngest == 5

\* Updated forty days ago: before a 30-day boundary, after a 90-day one.
FortyDaysAgo == ApiTime(SecOf(StartTicks) - 40 * 24 * 60 * 60)
\* Updated before every boundary.
Ancient == ApiTime(1)

RecentPage == ListPayload(<<ListItem(1, Recent), ListItem(2, Recent)>>)
AgingPage == ListPayload(<<ListItem(3, Recent), ListItem(4, FortyDaysAgo)>>)
UndatedPage == ListPayload(<<ListItem(5, FortyDaysAgo), ListItem(6, NullTime)>>)
AncientPage == ListPayload(<<ListItem(7, Ancient)>>)
EmptyPage == ListPayload(<<>>)

\* What the origin may answer to the request for a page: anything up to its
\* last page with items, and past it an empty page or one of old items only.
IngestResponses(page) ==
    IF page <= MaxIngestPages
    THEN {Ok(RecentPage), Ok(AgingPage), Ok(UndatedPage), Ok(EmptyPage),
          Ok(NotAnArray), ServerError}
    ELSE {Ok(EmptyPage), Ok(AncientPage)}

IngestDays == {0, 30}
IngestPerPage == {0, 50}

InitIngest ==
    /\ now = StartTicks
    /\ raw = <<>>
    /\ facts = {}
    /\ stats = {}
    /\ ret = NoRet
    /\ sync = Idle
    /\ token \in BOOLEAN
    /\ title = <<>>

\* One turn of the loop, whatever the origin answers.
IngestTurn ==
    /\ sync.pc = "ingest"
    /\ \E resp \in IngestResponses(sync.page) : IngestPage(resp)

NextIngest ==
    \/ sync.pc = "idle" /\ Advance(StartTicks + 1)
    \/ \E d \in IngestDays, pp \in IngestPerPage :
          /\ Len(raw) + MaxIngestPages + 1 <= MaxRawIngest
          /\ StartIngest(OWNER, REPO, d, pp)
    \/ IngestTurn
    \/ IngestSettled

SpecIngest == InitIngest /\ [][NextIngest]_vars

\* The response to a request that is out arrives, and the loop takes its turn.
SpecIngestFair == SpecIngest /\ WF_vars(IngestTurn)

---------------------------------------------------------------------------
(* Claims about the raw store *)

\* Rows of the table holding the same (source, endpoint, checksum).
SameContent(table, source, endpoint, payload) ==
    {i \in 1..Len(table) :
        /\ table[i].source = source
        /\ table[i].endpoint = endpoint
        /\ table[i].checksum = Checksum(payload)}

\* The instant a row's stored fetch time denotes, in ticks.
FetchTicks(r) == r.fetched_at * TicksPerSec

Skipped == raw' = raw /\ ret'.op = "store" /\ ~ret'.inserted
Inserted ==
    /\ Len(raw') = Len(raw) + 1
    /\ SubSeq(raw', 1, Len(raw)) = raw
    /\ ret'.op = "store" /\ ret'.inserted /\ ret'.id = Len(raw')

\* C1 (as extracted): a store call identical in (source, endpoint, payload) to
\* a stored row is skipped when less than 60 minutes lie between them, and
\* inserts a second row once more than 60 minutes have elapsed since the
\* fetch time of every such stored row.
C1_Original ==
    [][\A c \in StoreInputs :
        Store(c[1], c[2], 200, c[3]) =>
          LET same == SameContent(raw, c[1], c[2], c[3]) IN
          /\ (\E i \in same : now - FetchTicks(raw[i]) < DedupeWindowTicks) => Skipped
          /\ (\A i \in same : now - FetchTicks(raw[i]) > DedupeWindowTicks) => Inserted
      ]_vars

\* C1 (amended): a store call identical in (source, endpoint, payload) to a
\* stored row is skipped, writing nothing, when less than 60 minutes lie
\* between them, and also at exactly 60 minutes and up to the end of that
\* clock second; it inserts a second row, with the next identifier, once the
\* clock's whole-second reading is more than 60 minutes past the whole-second
\* fetch time of every such stored row.
C1_DedupWindow ==
    [][\A c \in StoreInputs :
        Store(c[1], c[2], 200, c[3]) =>
          LET same == SameContent(raw, c[1], c[2], c[3]) IN
          /\ (\E i \in same : now - FetchTicks(raw[i]) < DedupeWindowTicks) => Skipped
          /\ (\E i \in same : SecOf(now) - raw[i].fetched_at = DedupeWindowSec) => Skipped
          /\ (\A i \in same : SecOf(now) - raw[i].fetched_at > DedupeWindowSec) => Inserted
      ]_vars

\* Two rows of identical content are stored, the second after the window, and
\* the last identical call, inside the window of the second, was skipped.
C1_Witness ==
    /\ ret.op = "store" /\ ~ret.inserted
    /\ \E i, j \in 1..Len(raw) :
          /\ i < j
          /\ raw[i].source = raw[j].source
          /\ raw[i].endpoint = raw[j].endpoint
          /\ raw[i].checksum = raw[j].checksum
          /\ raw[j].fetched_at - raw[i].fetched_at > DedupeWindowSec
          /\ SecOf(now) - raw[j].fetched_at < DedupeWindowSec

\* C2: in every reachable state no two raw-response rows share the same
\* (source, endpoint, checksum) with fetch times less than 60 minutes apart,
\* the repository-metadata row persisted by deriveFacts included.
C2_RawStoreInvariant ==
    \A i, j \in 1..Len(raw) :
        ( /\ i < j
          /\ raw[i].source = raw[j].source
          /\ raw[i].endpoint = raw[j].endpoint
          /\ raw[i].checksum = raw[j].checksum )
        => raw[j].fetched_at - raw[i].fetched_at >= DedupeWindowSec

---------------------------------------------------------------------------
(* Claims about fact derivation *)

\* C3: a deriveFacts call that directly follows a successful deriveFacts call
\* for the same (owner, repo, days) and the same window, the raw store not
\* having changed in between, succeeds too, changes no raw row and leaves
\* the fact table exactly as the first call left it.
C3_IdempotentRederivation ==
    [][\A d \in DeriveDays, resp \in MetaResponses :
        ( /\ ret.op = "derive" /\ ret.ok
          /\ ret.owner = OWNER /\ ret.repo = REPO /\ ret.days = d
          /\ ret.since = SinceIso(now, d)
          /\ Derive(OWNER, REPO, d, resp) )
        => (facts' = facts /\ raw' = raw /\ ret'.ok)
      ]_vars

\* A second run over the same window has completed with two facts in the table.
C3_Witness ==
    /\ ret.op = "derive" /\ ret.ok /\ ret.again
    /\ Cardinality(facts) >= 2

\* The qualifying detail rows of pull request n: stored under the
\* repository's detail endpoint with status 200 and merged within the window.
Qualifying(table, n, since) ==
    {i \in 1..Len(table) :
        /\ table[i].endpoint = DetailEndpoint(OWNER, REPO, n)
        /\ table[i].status_code = 200
        /\ table[i].payload.merged_at # NullTime
        /\ DateParse(table[i].payload.merged_at) >= DateParse(since)}

MaxOf(S) == CHOOSE i \in S : \A j \in S : j <= i

FromRow(f, table, i) ==
    /\ f.source_row_id = i
    /\ f.title = table[i].payload.title
    /\ f.author = table[i].payload.login
    /\ f.kind = DeriveKind(table[i].payload.title).kind
    /\ f.points = DeriveKind(table[i].payload.title).points
    /\ f.merged_at = table[i].payload.merged_at

\* C4: when a successful deriveFacts call finds several qualifying detail rows
\* for one pull request number, every fact it writes for that pull request
\* has its title, author, kind, score and source-row reference from the row
\* with the highest identifier, and writes that fact whenever that row
\* targets the default branch and is complete.
C4_LatestWins ==
    [][\A d \in DeriveDays, resp \in MetaResponses :
        ( /\ ret'.op = "derive" /\ ret'.ok /\ ret'.days = d
          /\ Derive(OWNER, REPO, d, resp) ) =>
          \A n \in 1..2 : \A q \in {Qualifying(raw', n, SinceIso(now, d))} :
          Cardinality(q) >= 2 =>
            /\ \A f \in facts' :
                 (f.pr_url = PrUrl(OWNER, REPO, n) /\ f \notin facts)
                    => FromRow(f, raw', MaxOf(q))
            /\ ( /\ raw'[MaxOf(q)].payload.base_ref = StoredDefaultBranch(raw', OWNER, REPO)
                 /\ Complete(raw'[MaxOf(q)].payload) )
               => \E f \in facts' :
                     f.pr_url = PrUrl(OWNER, REPO, n) /\ FromRow(f, raw', MaxOf(q))
      ]_vars

\* Two qualifying rows of pull request 1 with different titles are stored,
\* facts were derived, and the fact carries the later row's title.
C4_Witness ==
    /\ ret.op = "derive" /\ ret.ok
    /\ \E i, j \in Qualifying(raw, 1, ret.since) :
          /\ i < j
          /\ j = MaxOf(Qualifying(raw, 1, ret.since))
          /\ raw[i].payload.title # raw[j].payload.title
          /\ raw[i].payload.title # <<>>
          /\ \E f \in facts : f.pr_url = PrUrl(OWNER, REPO, 1) /\ FromRow(f, raw, j)

---------------------------------------------------------------------------
(* Claims about classification *)

\* The part of title t that decides: from its first character that is not a
\* blank up to, not including, its first colon.
KeyStart(t) ==
    IF \E i \in 1..(ColonAt(t) - 1) : t[i] # " "
    THEN CHOOSE i \in 1..(ColonAt(t) - 1) : t[i] # " " /\ \A j \in 1..(i - 1) : t[j] = " "
    ELSE ColonAt(t)

\* That part starts with word w, letter case disregarded.
KeyStartsWith(t, w) ==
    \A k \in 1..Len(w) :
        /\ KeyStart(t) + k - 1 < ColonAt(t)
        /\ t[KeyStart(t) + k - 1] \in {w[k], UpperChar(w[k])}

\* The rubric: kind and score (in half points) of title t.
Rubric(t) ==
    IF KeyStartsWith(t, FEAT) THEN <<"feat", 6>>
    ELSE IF KeyStartsWith(t, FIX) THEN <<"fix", 4>>
    ELSE IF KeyStartsWith(t, CHORE) THEN <<"chore", 2>>
    ELSE IF KeyStartsWith(t, REVERT) THEN <<"revert", 1>>
    ELSE <<"other", 1>>

\* C5: the kind and score deriveKind returns for a title are those the rubric
\* gives for the lower-cased, trimmed part before the first colon (feat 3,
\* fix 2, chore 1, revert 0.5, anything else other 0.5), and changing the case
\* of a letter or a character after the first colon leaves both unchanged.
C5_Classification ==
    [][ /\ ret'.op = "kind" => <<ret'.kind, ret'.points>> = Rubric(ret'.title)
        /\ title' # title => DeriveKind(title') = DeriveKind(title)
      ]_vars

\* A title with capital letters before its colon, edited after the colon,
\* has been classified as a fix.
C5_Witness ==
    /\ ret.op = "kind" /\ ret.title = title /\ ret.kind = "fix" /\ ret.points = 4
    /\ \E i \in 1..(ColonAt(title) - 1) : IsUpper(title[i])
    /\ \E i \in 1..Len(title) : i > ColonAt(title) /\ title[i] = "X"

---------------------------------------------------------------------------
(* Claims about author statistics *)

\* The login ends with [bot], in whatever letter case.
EndsWithBot(login) ==
    LET w == <<"[", "b", "o", "t", "]">> IN
    /\ Len(login) >= Len(w)
    /\ \A k \in 1..Len(w) : login[Len(login) - Len(w) + k] \in {w[k], UpperChar(w[k])}

Returned == ret.op \in {"compute", "read"} /\ ret.ok

\* C6: in every reachable state no row of author_stats and no leaderboard
\* returned by computeAuthorStats or by the read path names an author whose
\* login ends, case-insensitively, with [bot].
C6_BotExclusion ==
    /\ \A s \in stats : ~EndsWithBot(s.author)
    /\ Returned => \A i \in 1..Len(ret.top) : ~EndsWithBot(ret.top[i].author)

\* A leaderboard was returned and statistics were written while the fact
\* table holds, in the window, bot facts in lower and in mixed case that score
\* as much as the leader's.
C6_Witness ==
    /\ Returned /\ Len(ret.top) > 0 /\ stats # {}
    /\ \E f, g \in facts :
          /\ f.author = XBOT /\ g.author = ABOT
          /\ StrLeq(ret.since, f.merged_at) /\ StrLeq(f.merged_at, ret.until)
          /\ StrLeq(ret.since, g.merged_at) /\ StrLeq(g.merged_at, ret.until)
          /\ f.points >= ret.top[1].total_score /\ g.points >= ret.top[1].total_score

\* The rows of sequence top.
RowsOf(top) == {top[i] : i \in 1..Len(top)}

\* Row a stands at or above row b: higher total score, or the same total
\* score and at least as many pull requests.
AtOrAbove(a, b) ==
    \/ a.total_score > b.total_score
    \/ a.total_score = b.total_score /\ a.total_prs >= b.total_prs

\* C7: a successful computeAuthorStats call returns the authors of the window
\* ordered by total score descending, ties by pull-request count descending;
\* it returns min(5, number of non-bot authors) of them, none below an author
\* it leaves out, and writes exactly the returned rows, at most 5.
C7_TopFive ==
    [][(ret'.op = "compute" /\ ret'.ok) =>
        \A agg \in {Aggregate(facts', ret'.owner, ret'.repo, ret'.since, ret'.until)} :
        \A top \in {ret'.top} :
          /\ Len(top) = IF Cardinality(agg) < 5 THEN Cardinality(agg) ELSE 5
          /\ RowsOf(top) \subseteq agg
          /\ Cardinality(RowsOf(top)) = Len(top)
          /\ \A i, j \in 1..Len(top) : i < j => AtOrAbove(top[i], top[j])
          /\ \A g \in agg \ RowsOf(top) : \A i \in 1..Len(top) : AtOrAbove(top[i], g)
          /\ ret'.rowsWritten = Len(top)
          /\ Cardinality(stats' \ stats) <= 5
          /\ \A s \in stats' \ stats : RowOfStat(s) \in RowsOf(top)
          /\ \A r \in RowsOf(top) : \E s \in stats' :
                /\ RowOfStat(s) = r
                /\ s.owner = ret'.owner /\ s.repo = ret'.repo /\ s.days = ret'.days
      ]_vars

\* Six non-bot authors have facts in the window, five were returned, and two
\* neighbours of equal total score stand in the order of their counts.
C7_Witness ==
    /\ ret.op = "compute" /\ ret.ok /\ Len(ret.top) = 5
    /\ Cardinality(Aggregate(facts, OWNER, REPO, ret.since, ret.until)) > 5
    /\ \E i \in 1..4 :
          /\ ret.top[i].total_score = ret.top[i + 1].total_score
          /\ ret.top[i].total_prs > ret.top[i + 1].total_prs

\* C8: after a successful computeAuthorStats call over [now - days, now], every
\* fact of a non-bot author merged inside the closed interval, one merged at
\* now - days exactly included, is counted for its author, and no fact merged
\* one second before now - days is.
C8_WindowBoundary ==
    (ret.op = "compute" /\ ret.ok) =>
        LET mine == {f \in facts : f.owner = ret.owner /\ f.repo = ret.repo
                                    /\ ~EndsWithBot(f.author)}
            inside == {f \in mine : /\ DateParse(ret.since) <= DateParse(f.merged_at)
                                    /\ DateParse(f.merged_at) <= DateParse(ret.until)}
            early == {f \in mine : DateParse(f.merged_at) = DateParse(ret.since) - TicksPerSec}
        IN /\ \A r \in RowsOf(ret.top) :
                /\ r.total_prs >= Cardinality({f \in inside : f.author = r.author})
                /\ r.total_prs <= Cardinality({f \in mine \ early : f.author = r.author})
           /\ Cardinality({f.author : f \in inside}) <= 5 =>
                \A f \in inside : \E r \in RowsOf(ret.top) : r.author = f.author

---------------------------------------------------------------------------
(* Claims about pagination *)

\* The last item of a page was updated before the look-back boundary.
LastItemBefore(items, since) ==
    /\ items # <<>>
    /\ items[Len(items)].updated_at # NullTime
    /\ DateParse(items[Len(items)].updated_at) < DateParse(since)

ListingOver == sync.pc \in {"pool", "done"}

\* C9: once a listing page has come back whose last item was updated before
\* the look-back boundary, discoverAndFetch is not about to request, and so
\* never requests, another listing page, whatever maxListPages and maxDetails.
C9_StopsAtBoundary ==
    (sync.pc = "list" /\ sync.listPagesFetched >= 1)
        => ~LastItemBefore(sync.items, sync.sinceIso)

\* The listing ended after a page whose last item is older than the boundary,
\* with pages and details to spare.
C9_Witness ==
    /\ ListingOver
    /\ LastItemBefore(sync.items, sync.sinceIso)
    /\ sync.listPagesFetched >= 2
    /\ sync.listPagesFetched < sync.maxListPages
    /\ Len(sync.prNumbers) < sync.maxPrDetails

\* The set of pull-request numbers of a sequence of numbers or of items.
NumbersOf(items) == {items[i].number : i \in 1..Len(items)} \ {NoNumber}
Range(ns) == {ns[i] : i \in 1..Len(ns)}

\* C10: when listing page p has been fetched, the loop ends there exactly if
\* the page has no items, or the unique pull-request numbers collected so far
\* are at least maxDetails, or the page's last item was updated before the
\* look-back boundary, or p equals maxListPages; otherwise page p + 1 is
\* requested next. No page beyond maxListPages is ever requested.
C10_StopConditions ==
    [][ /\ (sync'.pc = "list" => sync'.page <= sync'.maxListPages)
        /\ (sync.pc = "list" /\ sync'.listPagesFetched = sync.listPagesFetched + 1) =>
            /\ Range(sync'.prNumbers) = Range(sync.prNumbers) \cup NumbersOf(sync'.items)
            /\ Cardinality(Range(sync'.prNumbers)) = Len(sync'.prNumbers)
            /\ sync'.listPagesFetched = sync.page
            /\ IF \/ sync'.items = <<>>
                  \/ Cardinality(Range(sync'.prNumbers)) >= sync.maxPrDetails
                  \/ LastItemBefore(sync'.items, sync.sinceIso)
                  \/ sync.page = sync.maxListPages
               THEN sync'.pc # "list"
               ELSE sync'.pc = "list" /\ sync'.page = sync.page + 1
      ]_vars

\* The listing ran through all of its maxListPages pages: on none of them was
\* the page empty, the count reached or the boundary crossed.
C10_Witness ==
    /\ ListingOver
    /\ sync.maxListPages = MaxSyncPages /\ sync.listPagesFetched = MaxSyncPages
    /\ sync.items # <<>>
    /\ ~LastItemBefore(sync.items, sync.sinceIso)
    /\ Len(sync.prNumbers) < sync.maxPrDetails

---------------------------------------------------------------------------
(* Claims about failures of the origin *)

\* A rate-limit failure: a 403 or 429 response with rate-limit headers.
IsRateLimitFailure(f) ==
    f.status \in {403, 429} /\ ExtractRateLimit(f.headers) # NullRateLimit

RunOver == sync.pc \in {"done", "failed"}
DetailFailed(i) == i \in 1..Len(sync.failed) /\ sync.toFetch # <<>>

\* The counters of the summary an endpoint response carries are those of the
\* run.
CountersOf(summary) ==
    /\ summary # NoSummary
    /\ summary.listPagesFetched = sync.listPagesFetched
    /\ summary.prDetailsAlreadyPresent = sync.prDetailsAlreadyPresent
    /\ summary.prDetailsFetched = sync.prDetailsFetched
    /\ summary.prDetailsStored = sync.prDetailsStored

\* C11: a run in which a detail fetch failed with a rate-limit failure ends
\* with a rate-limit error that carries a partial summary whose counters are
\* those of the run at its end.
C11_RateLimitInDetails ==
    (RunOver /\ \E i \in 1..Len(sync.failed) :
                    DetailFailed(i) /\ IsRateLimitFailure(sync.failed[i]))
        => /\ ret.op = "sync" /\ ret.http = 429
           /\ ret.error.kind = "rate_limit"
           /\ CountersOf(ret.summary)

\* C12: a run that ended on a rate-limit failure of the metadata request or of
\* a listing request answers 429 with the rate-limit state and a partial
\* summary of the pages fetched and the numbers discovered so far.
C12_RateLimitBeforeDetails ==
    (/\ sync.pc = "failed" /\ sync.toFetch = <<>>
     /\ sync.failed # <<>> /\ IsRateLimitFailure(sync.failed[Len(sync.failed)]))
        => /\ ret.op = "sync" /\ ret.http = 429
           /\ ret.rateLimit # NullRateLimit
           /\ ret.summary # NoSummary
           /\ ret.summary.listPagesFetched = sync.listPagesFetched
           /\ ret.summary.prsDiscoveredFromList
                = MinOf(Len(sync.prNumbers), sync.maxPrDetails)

\* C13: whenever a request of the run fails, the error raised for it is a
\* rate-limit error exactly if the response has status 403 or 429 and carries
\* rate-limit headers.
C13_Classification ==
    [][ (sync.pc \in {"meta", "list", "pool"}
         /\ Len(sync'.failed) = Len(sync.failed) + 1) =>
          ((IF sync.pc = "pool" THEN sync'.abortErr ELSE sync'.error).kind = "rate_limit"
              <=> IsRateLimitFailure(sync'.failed[Len(sync'.failed)])) ]_vars

\* C14: when the first failure in the detail pool is a rate-limit failure and
\* a fetch then in flight fails later in another way, the run ends with the
\* rate-limit error of the first failure and its partial summary.
C14_FirstFailureWins ==
    (/\ sync.pc = "failed" /\ sync.toFetch # <<>>
     /\ Len(sync.failed) >= 2
     /\ IsRateLimitFailure(sync.failed[1])
     /\ \A i \in 2..Len(sync.failed) : ~IsRateLimitFailure(sync.failed[i]))
        => /\ ret.op = "sync" /\ ret.http = 429
           /\ ret.error.kind = "rate_limit"
           /\ ret.error.status = sync.failed[1].status
           /\ ret.rateLimit = ExtractRateLimit(sync.failed[1].headers)
           /\ ret.summary # NoSummary

\* The raw store holds a stored response for the detail of pull request n.
DetailStored(table, n) ==
    \E k \in 1..Len(table) :
        /\ table[k].endpoint = DetailEndpoint(sync.owner, sync.repo, n)
        /\ table[k].status_code = 200

\* C15: from the step in which a worker of the detail pool catches a failed
\* fetch, no fetch is started that was not already in flight; a fetch in
\* flight that completes afterwards is counted and its response is in the raw
\* store; and the run is over only when no fetch is in flight.
C15_CooperativeCancellation ==
    [][ (sync.pc = "pool" /\ sync'.failed # <<>>) =>
          /\ sync'.inflight \subseteq sync.inflight
          /\ sync'.index = sync.index
          /\ sync'.pc # "pool" <=> sync'.inflight = {}
          /\ Len(sync'.failed) = Len(sync.failed) =>
                /\ sync'.prDetailsFetched = sync.prDetailsFetched + 1
                /\ \A i \in sync.inflight \ sync'.inflight :
                      DetailStored(raw', sync.toFetch[i])
                /\ \A k \in 1..Len(raw) : raw'[k] = raw[k]
      ]_vars

\* A run of five fetches ended after one failure: the three fetches in flight
\* with it completed and the fifth was never started.
C15_Witness ==
    /\ sync.pc = "failed"
    /\ Len(sync.toFetch) = 5 /\ sync.index = DETAIL_CONCURRENCY
    /\ Len(sync.failed) = 1
    /\ sync.prDetailsFetched = 3
    /\ ~DetailStored(raw, 5)

\* C16: a run in which a request failed with a failure that is not a
\* rate-limit failure ends with such a failure: the endpoint answers 500, not
\* 429 and not 200, with the error of a failed response that was not a
\* rate-limit failure.
C16_OrdinaryFailure ==
    (RunOver /\ \E i \in 1..Len(sync.failed) : ~IsRateLimitFailure(sync.failed[i]))
        => /\ sync.pc = "failed"
           /\ ret.op = "sync" /\ ret.http = 500
           /\ ret.error.kind = "error"
           /\ \E i \in 1..Len(sync.failed) :
                 /\ ~IsRateLimitFailure(sync.failed[i])
                 /\ ret.error.status = sync.failed[i].status

---------------------------------------------------------------------------
(* Claims about the detail fetches *)

\* The raw store holds a detail of pull request n with a merge timestamp.
StoredMerged(table, n) ==
    \E k \in 1..Len(table) :
        /\ table[k].endpoint = DetailEndpoint(sync.owner, sync.repo, n)
        /\ JsonTime(table[k].payload, "merged_at") # NullTime

\* The first maxDetails of the discovered numbers.
Limited(s) == {s.prNumbers[k] : k \in 1..MinOf(Len(s.prNumbers), s.maxPrDetails)}

---------------------------------------------------------------------------
(* Claims about the tables' keys *)

\* C18: the fact table never holds two rows with the same owner, repository
\* and pull-request URL; no step removes the fact of a pull request; and a
\* fact that deriveFacts writes over an existing one has its merge timestamp,
\* title, author, author URL, kind, score and source-row reference from one
\* raw row of that pull request.
C18_FactKey ==
    [][ /\ \A f \in facts' : \A g \in facts' :
              (f.owner = g.owner /\ f.repo = g.repo /\ f.pr_url = g.pr_url) => f = g
        /\ \A g \in facts : \E f \in facts' :
              f.owner = g.owner /\ f.repo = g.repo /\ f.pr_url = g.pr_url
        /\ \A f \in facts' \ facts :
              \E i \in 1..Len(raw') :
                 /\ "html_url" \in DOMAIN raw'[i].payload
                 /\ raw'[i].payload.html_url = f.pr_url
                 /\ FromRow(f, raw', i)
                 /\ f.author_url = <<"https://github.com/">> \o raw'[i].payload.login
      ]_vars

\* A deriveFacts call has written over the fact of a pull request.
C18_Witness ==
    /\ ret.op = "derive" /\ ret.ok /\ ret.replaced >= 1
    /\ Cardinality(facts) = 1

\* The score and the counts of two statistics rows are the same.
SameCounts(a, b) ==
    /\ a.total_score = b.total_score /\ a.total_prs = b.total_prs
    /\ a.feat_count = b.feat_count /\ a.fix_count = b.fix_count
    /\ a.chore_count = b.chore_count /\ a.revert_count = b.revert_count
    /\ a.other_count = b.other_count

\* C19: the statistics table never holds two rows with the same owner,
\* repository, days and author; the rows a computeAuthorStats call writes
\* carry the scores and counts it returns; and when the call follows a
\* successful call for the same days, the facts in the window being the same,
\* every row that was in the table has the scores and counts it had after the
\* first.
C19_StatKey ==
    [][ /\ \A a \in stats' : \A b \in stats' :
              (a.owner = b.owner /\ a.repo = b.repo /\ a.days = b.days
               /\ a.author = b.author) => a = b
        /\ (ret'.op = "compute" /\ ret'.ok) =>
              \A i \in 1..Len(ret'.top) : \E a \in stats' :
                  /\ a.days = ret'.days /\ a.author = ret'.top[i].author
                  /\ SameCounts(a, ret'.top[i])
        /\ (/\ ret.op = "compute" /\ ret.ok /\ ret'.op = "compute" /\ ret'.ok
            /\ ret'.days = ret.days
            /\ Aggregate(facts', OWNER, REPO, ret'.since, ret'.until)
                 = Aggregate(facts, OWNER, REPO, ret.since, ret.until)) =>
              \A a \in stats' : \A b \in stats :
                  (b.days = a.days /\ b.author = a.author) => SameCounts(a, b)
      ]_vars

\* computeAuthorStats has run a second time for the same days, at a later
\* instant, and the table holds the five rows of those days.
C19_Witness ==
    /\ ret.op = "compute" /\ ret.ok /\ ret.again
    /\ now > StartTicks
    /\ Cardinality({a \in stats : a.days = ret.days /\ a.computed_at = IsoOf(now)}) = 5

---------------------------------------------------------------------------
(* Claims about the read path *)

KeyOf(r, K) ==
    CASE K = "feat" -> r.feat_count
      [] K = "fix" -> r.fix_count
      [] K = "chore" -> r.chore_count
      [] K = "revert" -> r.revert_count
      [] K = "other" -> r.other_count
      [] OTHER -> r.total_score

\* C21: the rows a read with ranking key K returns are min(5, number of
\* non-bot authors) rows of the aggregation over the facts in the window, and
\* no author left out ranks higher by K than an author returned.
C21_RankedRead ==
    ret.op = "read" =>
        \A agg \in {Aggregate(facts, ret.owner, ret.repo, ret.since, ret.until)} :
        \A top \in {ret.top} :
          /\ Len(top) = MinOf(TOP_N, Cardinality(agg))
          /\ \A i \in 1..Len(top) : \E g \in agg :
                g.author = top[i].author /\ SameCounts(g, top[i])
          /\ \A g \in agg : (\A i \in 1..Len(top) : top[i].author # g.author) =>
                \A i \in 1..Len(top) : KeyOf(top[i], ret.rankBy) >= KeyOf(g, ret.rankBy)

---------------------------------------------------------------------------
(* Claims about the recompute endpoint *)

\* C22: when the recompute endpoint has answered ok = true, derivation and
\* aggregation have completed successfully and the answer carries the window
\* bounds, the leaderboard rows, the computation timestamp and the number of
\* rows written; when they have failed, the answer is ok = false with a
\* message.
C22_RecomputeEnvelope ==
    (ret.op = "recompute" /\ ret.http # 400) =>
        /\ sync.pc = "settled"
        /\ IF sync.result.ok
           THEN /\ ret.ok
                /\ ret.window = [days |-> sync.result.days, since |-> sync.result.since,
                                 until |-> sync.result.until]
                /\ ret.topAuthors = sync.result.top
                /\ ret.computedAt # Undefined
                /\ ret.rowsWritten = sync.result.rowsWritten
           ELSE ~ret.ok /\ ret.error = sync.result.error

---------------------------------------------------------------------------
(* Claims about concurrency *)

PipelineDone ==
    /\ sync.pc = "done" /\ ret.op = "derive" /\ ret.ok
    /\ sync.prDetailsStored = Len(sync.toFetch)

\* The raw store as it would be had the detail fetches of the run completed
\* in the order in which they were queued.
InOrderStore ==
    LET k == Len(sync.toFetch)
        n == Len(raw) - k
    IN SubSeq(raw, 1, n) \o
       [j \in 1..k |-> raw[CHOOSE i \in (n + 1)..Len(raw) :
                              raw[i].endpoint
                                = DetailEndpoint(sync.owner, sync.repo, sync.toFetch[j])]]

\* A fact without its reference to the raw row and that row's fetch time.
ContentOf(f) ==
    [owner |-> f.owner, repo |-> f.repo, pr_url |-> f.pr_url,
     merged_at |-> f.merged_at, title |-> f.title, author |-> f.author,
     author_url |-> f.author_url, kind |-> f.kind, points |-> f.points]

InOrderFacts ==
    RefreshPrFacts(InOrderStore, {}, sync.owner, sync.repo, ret.days, now, token,
                   Ok(RepoPayload(MAIN))).facts

\* C23 as stated: after a discovery run without failures and a deriveFacts
\* call, the fact rows are those of the run whose detail fetches complete in
\* the order of their start, whatever the order of completion was.
C23_Original == PipelineDone => facts = InOrderFacts

\* C23: after a discovery run without failures and a deriveFacts call, the
\* fact rows, their references to raw rows aside, are those of the run whose
\* detail fetches complete in the order of their start, whatever the order of
\* completion was.
C23_OrderInsensitive ==
    PipelineDone =>
        /\ {ContentOf(f) : f \in facts} = {ContentOf(f) : f \in InOrderFacts}
        /\ Cardinality(facts) = Cardinality(InOrderFacts)

\* Five details were stored in another order than they were queued, the
\* fifth before one of the first four, and the facts were derived.
C23_Witness ==
    /\ PipelineDone
    /\ Len(sync.toFetch) = 5
    /\ raw # InOrderStore
    /\ raw[Len(raw)].endpoint # DetailEndpoint(OWNER, REPO, 5)
    /\ Cardinality(facts) = 5


OverlapDone ==
    /\ sync.pc = "done" /\ "other" \in DOMAIN sync /\ sync.other.pc = "done"
    /\ ret.op = "derive" /\ ret.ok

\* The raw store a single run started at instant t on an empty store leaves
\* when its three detail fetches are stored in the order order.
SingleRunStore(t, order) ==
    LET run == NewRun(OWNER, REPO, 30, 0, 1, t)
        put(table, endpoint, payload) ==
            InsertRawResponse(table, "github", endpoint, 200, payload, t).table
        listed == put(put(<<>>, RepoEndpoint(OWNER, REPO), RepoPayload(MAIN)),
                      ListEndpoint(OWNER, REPO, MAIN, 1, run.sinceIso), OverlapPage)
        detail(table, n) == put(table, DetailEndpoint(OWNER, REPO, n), PipelineDetail(n))
    IN detail(detail(detail(listed, order[1]), order[2]), order[3])

Orders == {o \in [1..3 -> 1..3] : \A i, j \in 1..3 : o[i] = o[j] => i = j}

SingleRunFacts(t, order) ==
    RefreshPrFacts(SingleRunStore(t, order), {}, OWNER, REPO, 30, now, token,
                   Ok(RepoPayload(MAIN))).facts

\* A fact without the fetch time of its raw row.
RowOf(f) == [content |-> ContentOf(f), source_row_id |-> f.source_row_id]

\* C24 as stated: two overlapping runs followed by deriveFacts end in the
\* fact table of some single run followed by deriveFacts, the fetch times
\* aside.
C24_Original ==
    OverlapDone =>
        \E order \in Orders :
            {RowOf(f) : f \in facts} = {RowOf(f) : f \in SingleRunFacts(StartTicks, order)}

\* C24: two overlapping runs followed by deriveFacts end in the facts of a
\* single run followed by deriveFacts, the facts' references to raw rows aside.
C24_Convergence ==
    OverlapDone =>
        /\ {ContentOf(f) : f \in facts}
             = {ContentOf(f) : f \in SingleRunFacts(StartTicks, <<1, 2, 3>>)}
        /\ Cardinality(facts) = 3

\* Both runs fetched details, the second call came later than the first, and
\* the details were stored in another order than that of their numbers.
C24_Witness ==
    /\ OverlapDone
    /\ sync.prDetailsFetched > 0 /\ sync.other.prDetailsFetched > 0
    /\ sync.sinceIso # sync.other.sinceIso
    /\ \E i, j \in 1..Len(raw) :
          /\ i < j
          /\ raw[i].endpoint = DetailEndpoint(OWNER, REPO, 3)
          /\ raw[j].endpoint = DetailEndpoint(OWNER, REPO, 1)

---------------------------------------------------------------------------
(* Claims about missing prerequisites *)

\* C25: when the metadata response of a discovery run has no default branch,
\* the run fails at that point: no listing page has been or is requested, no
\* detail is queued or in flight, and the caller gets a failure.
C25_NoDefaultBranch ==
    [][(/\ sync.pc = "meta"
        /\ sync'.pc # "meta"
        /\ Len(raw') > Len(raw)
        /\ JsonText(raw'[Len(raw')].payload, "default_branch") = <<>>)
       => /\ sync'.pc = "failed"
          /\ sync'.error = DefaultBranchRequired
          /\ ~ret'.ok /\ ret'.op = "sync"
          /\ sync'.page = 0 /\ sync'.listPagesFetched = 0
          /\ sync'.toFetch = <<>> /\ sync'.inflight = {}
          /\ sync'.prDetailsFetched = 0]_vars

\* A run has failed on metadata without a default branch, which it stored.
C25_Witness ==
    /\ sync.pc = "failed"
    /\ sync.error = DefaultBranchRequired
    /\ raw # <<>>
    /\ raw[Len(raw)].endpoint = RepoEndpoint(OWNER, REPO)
    /\ JsonText(raw[Len(raw)].payload, "default_branch") = <<>>


\* C26: without a credential no response of the origin is ever used: the
\* first fetch of a discovery run fails whatever the origin would answer, the
\* run ends in failure there, and no step adds a row to the raw store.
C26_NoCredential ==
    [][~token =>
        /\ raw' = raw
        /\ sync'.pc \in {"idle", "meta", "failed"}
        /\ (sync.pc = "meta" /\ sync' # sync) =>
              /\ sync'.pc = "failed"
              /\ ~ret'.ok /\ ret'.op = "sync" /\ ret'.http = 500
              /\ sync'.failed = <<[status |-> 0, headers |-> NoRateHeaders]>>
              /\ sync'.listPagesFetched = 0 /\ sync'.prDetailsFetched = 0]_vars

\* A run without a credential has ended in failure.
C26_Witness == ~token /\ sync.pc = "failed" /\ ret.op = "sync" /\ ~ret.ok


\* The default branch in the most recently stored metadata row, if any.
LastStoredBranch(table, owner, repo) ==
    LET hit == {i \in 1..Len(table) : table[i].endpoint = RepoEndpoint(owner, repo)}
    IN IF hit = {} THEN <<>>
       ELSE JsonText(table[CHOOSE i \in hit : \A j \in hit : j <= i].payload,
                     "default_branch")

\* C27: a deriveFacts call that finds a default branch in the most recently
\* stored metadata row sends no request and leaves the raw store as it is;
\* any other call sends one metadata request, and the payload it gets is the
\* one new row of the raw store, from which store the facts are then derived.
C27_MetadataReuse ==
    [][(ret'.op = "derive" /\ now' = now) =>
        LET stored == LastStoredBranch(raw, ret'.owner, ret'.repo)
            last == raw'[Len(raw')]
        IN IF stored # <<>>
           THEN ~ret'.sent /\ raw' = raw
           ELSE /\ ret'.sent
                /\ ret'.error = "GitHub repo fetch failed" => raw' = raw
                /\ ret'.error # "GitHub repo fetch failed" =>
                      /\ Len(raw') = Len(raw) + 1
                      /\ SubSeq(raw', 1, Len(raw)) = raw
                      /\ last.source = "github"
                      /\ last.endpoint = RepoEndpoint(ret'.owner, ret'.repo)
                      /\ ret'.ok = (JsonText(last.payload, "default_branch") # <<>>)
                      /\ ret'.ok =>
                            facts' = UpsertRows(facts, raw',
                                        Picked(raw', ret'.owner, ret'.repo, ret'.since,
                                               JsonText(last.payload, "default_branch")),
                                        ret'.owner, ret'.repo)]_vars

\* A call has derived a fact without a request, from metadata that an
\* earlier call fetched and stored.
C27_Witness ==
    /\ ret.op = "derive" /\ ret.ok /\ ~ret.sent
    /\ facts # {}
    /\ LastStoredBranch(raw, OWNER, REPO) = MAIN


\* C28: a deriveFacts or computeAuthorStats call that fails, for want of a
\* default branch in the store and in what the origin answers, leaves the
\* fact table and the statistics table as they were.
C28_GapLeavesDerivedState ==
    [][(ret'.op \in {"derive", "compute"} /\ ~ret'.ok /\ now' = now)
       => facts' = facts /\ stats' = stats]_vars

\* computeAuthorStats has failed on fetched metadata without a default branch
\* while both tables held rows.
C28_Witness ==
    /\ ret.op = "compute" /\ ~ret.ok
    /\ ret.error = "default_branch not found"
    /\ facts # {} /\ stats # {}

---------------------------------------------------------------------------
(* Claims about the derivation batch *)

\* The payload lacks the PR URL, the merge time, the title or the author login.
Lacking(payload) ==
    \/ JsonText(payload, "html_url") = <<>>
    \/ JsonTime(payload, "merged_at") = NullTime
    \/ JsonText(payload, "title") = <<>>
    \/ JsonText(payload, "login") = <<>>

\* The rows a successful deriveFacts call selected from the store it left.
SelectedRows(table, call) ==
    Picked(table, call.owner, call.repo, call.since,
           LastStoredBranch(table, call.owner, call.repo))

\* C29: in a deriveFacts call that succeeds, a selected row lacking one of the
\* four fields gives no fact and no error, and every selected row that has all
\* four gives its fact.
C29_MalformedSkipped ==
    [][(ret'.op = "derive" /\ ret'.ok /\ now' = now) =>
        \A i \in SelectedRows(raw', ret') :
            IF Lacking(raw'[i].payload)
            THEN /\ \A f \in facts' \ facts : f.source_row_id # i
                 /\ ret'.error = "none"
            ELSE FactOf(raw', i, ret'.owner, ret'.repo) \in facts']_vars

\* A call selected a row without a title and, after it, a row with all four
\* fields, whose fact the table now holds.
C29_Witness ==
    /\ ret.op = "derive" /\ ret.ok
    /\ \E i, j \in SelectedRows(raw, ret) :
          /\ i < j
          /\ Lacking(raw[i].payload)
          /\ ~Lacking(raw[j].payload)
          /\ FactOf(raw, j, OWNER, REPO) \in facts
          /\ \A f \in facts : f.source_row_id # i


\* The qualifying detail rows of a call, and among them the one of highest id
\* for the pull request of row i.
QualifyingRows(table, call) == PrRows(table, call.owner, call.repo, call.since)
IsHighest(table, rows, i) ==
    \A j \in rows :
        JsonNumber(table[j].payload, "number") = JsonNumber(table[i].payload, "number")
            => j <= i

\* C30: every fact a successful deriveFacts call creates or changes comes
\* from the qualifying detail row of highest id of its pull request, and that
\* row's base branch is the default branch; a pull request whose latest
\* qualifying row targets another branch gets no fact from an older row.
C30_FilterAfterLatest ==
    [][(ret'.op = "derive" /\ ret'.ok /\ now' = now) =>
        LET rows == QualifyingRows(raw', ret')
            branch == LastStoredBranch(raw', ret'.owner, ret'.repo)
        IN /\ \A f \in facts' \ facts :
                /\ f.source_row_id \in rows
                /\ IsHighest(raw', rows, f.source_row_id)
                /\ JsonText(raw'[f.source_row_id].payload, "base_ref") = branch
           /\ \A i \in rows :
                (/\ IsHighest(raw', rows, i)
                 /\ JsonText(raw'[i].payload, "base_ref") # branch)
                => \A f \in facts' :
                      f.pr_url = JsonText(raw'[i].payload, "html_url") => f \in facts]_vars

\* A call found an older row targeting the default branch and a latest row
\* targeting another branch for the same pull request, and the table holds no
\* fact for it.
C30_Witness ==
    /\ ret.op = "derive" /\ ret.ok
    /\ \E i, j \in QualifyingRows(raw, ret) :
          /\ i < j
          /\ JsonNumber(raw[i].payload, "number") = JsonNumber(raw[j].payload, "number")
          /\ IsHighest(raw, QualifyingRows(raw, ret), j)
          /\ JsonText(raw[i].payload, "base_ref") = MAIN
          /\ JsonText(raw[j].payload, "base_ref") = DEV
          /\ \A f \in facts : f.pr_url # JsonText(raw[i].payload, "html_url")

---------------------------------------------------------------------------
(* Claims about computeAuthorStats *)

\* C31: when computeAuthorStats returns, the fact table holds the fact of
\* every complete detail row the derivation selects from the raw store as it
\* was before the call, and the leaderboard returned is a top five of the
\* aggregation over that fact table.
C31_DeriveBeforeAggregate ==
    [][(ret'.op = "compute" /\ ret'.ok /\ now' = now) =>
        /\ \A i \in Picked(raw, ret'.owner, ret'.repo, ret'.since,
                           LastStoredBranch(raw', ret'.owner, ret'.repo)) :
              ~Lacking(raw[i].payload)
                 => FactOf(raw, i, ret'.owner, ret'.repo) \in facts'
        /\ ret'.top \in TopLists(Aggregate(facts', ret'.owner, ret'.repo,
                                           ret'.since, ret'.until),
                                 TOP_N, "overall")]_vars

\* The detail of a third pull request was stored last, after the metadata, and
\* the call that followed returned its author, of whom the fact table knew
\* nothing before.
C31_Witness ==
    /\ ret.op = "compute" /\ ret.ok
    /\ raw[Len(raw)].endpoint = DetailEndpoint(OWNER, REPO, 3)
    /\ \E i \in 1..Len(ret.top) : ret.top[i].author = CAROL
    /\ \E f \in facts : f.author = CAROL /\ f.source_row_id = Len(raw)

---------------------------------------------------------------------------
(* Claims about the parallelism of a discovery run *)

\* C32: while the pool of a discovery run works, at most DETAIL_CONCURRENCY
\* detail fetches are in flight; while the run lists, the one page requested
\* is the one after those fetched, and the next is requested only in the step
\* that stored and examined the response to it.
C32_BoundedParallelism ==
    [][/\ sync.pc = "pool" => Cardinality(sync.inflight) <= DETAIL_CONCURRENCY
       /\ sync'.pc = "pool" => Cardinality(sync'.inflight) <= DETAIL_CONCURRENCY
       /\ sync.pc = "list" => sync.page = sync.listPagesFetched + 1
       /\ (sync.pc = "list" /\ sync'.pc = "list" /\ sync'.page # sync.page) =>
             /\ sync'.page = sync.page + 1
             /\ sync'.listPagesFetched = sync.page
             /\ \E i \in 1..Len(raw') :
                   /\ raw'[i].endpoint
                        = ListEndpoint(sync.owner, sync.repo, sync.defaultBranch,
                                       sync.page, sync.sinceIso)
                   /\ ItemsOf(raw'[i].payload) = sync'.items]_vars

\* Four detail fetches are in flight and a fifth number waits for a worker.
C32_Witness ==
    /\ sync.pc = "pool"
    /\ Cardinality(sync.inflight) = DETAIL_CONCURRENCY
    /\ Len(sync.toFetch) > DETAIL_CONCURRENCY
    /\ sync.index < Len(sync.toFetch)

---------------------------------------------------------------------------
(* Claims about the lifetime of raw rows *)

\* C33: every step of the pipeline leaves each raw row where and as it was,
\* and the rows it adds come after all of them: a row's identifier is its
\* place in the store.
C33_AppendOnly ==
    [][/\ Len(raw') >= Len(raw)
       /\ SubSeq(raw', 1, Len(raw)) = raw]_vars

\* Store, discovery, derivation and aggregation have all added or read rows:
\* the store holds a stored row, a listing page and a detail of the run, and
\* statistics were computed and read.
C33_Witness ==
    /\ sync.pc = "done" /\ sync.prDetailsStored > 0
    /\ stats # {}
    /\ ret.op = "read"
    /\ Len(raw) = MaxRawAll
    /\ \E i \in 1..Len(raw) :
          raw[i].payload = AggDetail(3, Recent, TChore, CAROL)

---------------------------------------------------------------------------
(* Claims about the service surface *)

\* C34: the recompute and the read endpoint work with the requested days when
\* they are 30, 60 or 90 and with 90 otherwise, and every statistics row
\* written through them has one of these three values as its days.
C34_WindowRestriction ==
    /\ \A s \in stats : s.days \in {30, 60, 90}
    /\ sync.pc = "recompute" =>
          sync.days = IF sync.requested \in {30, 60, 90} THEN sync.requested ELSE 90
    /\ ret.op = "read" =>
          ret.days = IF ret.requested \in {30, 60, 90} THEN ret.requested ELSE 90

\* A read asking for seven days found no statistics for 90 days, aggregated
\* over the facts and wrote rows for 90 days.
C34_Witness ==
    /\ ret.op = "read" /\ ret.requested = 7 /\ ret.path = "facts"
    /\ \E s \in stats : s.days = 90


\* C35: in the pool of a discovery run the numbers to fetch are distinct and
\* no position is taken by a worker twice; a run that ends without a failed
\* fetch has taken every position once, and its result list holds at each
\* position the detail of the pull request queued there.
C35_ExactlyOnce ==
    sync.pc \in {"pool", "done", "failed"} =>
        /\ \A i, j \in 1..Len(sync.toFetch) :
              sync.toFetch[i] = sync.toFetch[j] => i = j
        /\ \A i, j \in 1..Len(sync.dispatched) :
              sync.dispatched[i] = sync.dispatched[j] => i = j
        /\ \A i \in 1..Len(sync.dispatched) : sync.dispatched[i] \in 1..Len(sync.toFetch)
        /\ sync.inflight \subseteq Range(sync.dispatched)
        /\ (sync.pc = "done" /\ sync.failed = <<>>) =>
              /\ Range(sync.dispatched) = 1..Len(sync.toFetch)
              /\ sync.results = sync.toFetch
              /\ sync.prDetailsFetched = Len(sync.toFetch)

\* A run over five numbers has ended without a failure, its fifth number
\* taken by the worker whose fetch completed first.
C35_Witness ==
    /\ sync.pc = "done" /\ sync.failed = <<>>
    /\ Len(sync.toFetch) = 5
    /\ sync.results = sync.toFetch

---------------------------------------------------------------------------
(* Claims about the summary of a discovery run *)

\* C36: in the summary a discovery run returns, the pull requests discovered
\* are at most maxPrDetails, which lies in 1..MAX_PR_DETAILS_CAP, and are
\* those already present plus those fetched; those stored and those merged
\* within the window are at most those fetched; the pages fetched are at
\* least one and at most maxListPages, which lies in
\* 1..DEFAULT_MAX_LIST_PAGES. In the summary attached to a rate-limit error
\* those present plus those fetched are at most those discovered.
C36_SummaryCounters ==
    (ret.op = "sync" /\ ret.summary # NoSummary) =>
        LET m == ret.summary IN
        /\ sync.maxPrDetails \in 1..MAX_PR_DETAILS_CAP
        /\ sync.maxListPages \in 1..DEFAULT_MAX_LIST_PAGES
        /\ IF ret.ok
           THEN /\ m.prsDiscoveredFromList <= sync.maxPrDetails
                /\ m.prDetailsAlreadyPresent + m.prDetailsFetched = m.prsDiscoveredFromList
                /\ m.prDetailsStored <= m.prDetailsFetched
                /\ m.mergedPrsWithinWindowCount <= m.prDetailsFetched
                /\ 1 <= m.listPagesFetched
                /\ m.listPagesFetched <= sync.maxListPages
           ELSE /\ ret.http = 429
                /\ m.prDetailsAlreadyPresent + m.prDetailsFetched <= m.prsDiscoveredFromList

\* A run limited to two details returned after it had collected more than two
\* numbers, found one detail present and fetched the other.
C36_Witness ==
    /\ ret.op = "sync" /\ ret.ok
    /\ Len(sync.prNumbers) > sync.maxPrDetails
    /\ ret.summary.prDetailsAlreadyPresent = 1
    /\ ret.summary.prDetailsFetched = 1
    /\ ret.summary.prsDiscoveredFromList = 2

---------------------------------------------------------------------------
(* Claims about the statistics table after a recompute *)

\* C37: when computeAuthorStats returns for (owner, repo, days), the authors
\* of the statistics rows stored under that key are the authors it returned,
\* and a read by the overall key that follows returns these authors with
\* their totals.
C37_StatsAgree ==
    [][/\ (ret'.op = "compute" /\ ret'.ok) =>
            {s.author : s \in StoredStats(stats', ret'.owner, ret'.repo, ret'.days)}
                = {ret'.top[i].author : i \in 1..Len(ret'.top)}
       /\ (/\ ret.op = "compute" /\ ret.ok
           /\ ret'.op = "read" /\ ret'.rankBy = "overall"
           /\ ret'.owner = ret.owner /\ ret'.repo = ret.repo /\ ret'.days = ret.days) =>
            {ret'.top[i] : i \in 1..Len(ret'.top)} = {ret.top[i] : i \in 1..Len(ret.top)}]_vars


\* C38: in every statistics row the total of pull requests is the sum of the
\* five counts, and the total score, in half points, is 6 for each feat, 4
\* for each fix, 2 for each chore and 1 for each revert and each other.
C38_Arithmetic ==
    \A s \in stats :
        /\ s.total_prs = s.feat_count + s.fix_count + s.chore_count
                           + s.revert_count + s.other_count
        /\ s.total_score = 6 * s.feat_count + 4 * s.fix_count + 2 * s.chore_count
                             + s.revert_count + s.other_count

\* A read that found no statistics for its days aggregated over the facts and
\* wrote the row of a person with a feat and a fix; an earlier recompute had
\* written, for other days, the row of a person with two chores.
C38_Witness ==
    /\ ret.op = "read" /\ ret.path = "facts"
    /\ \E s \in stats : s.days = ret.days /\ s.feat_count = 1 /\ s.fix_count = 1
    /\ \E s \in stats : s.days # ret.days /\ s.chore_count = 2

---------------------------------------------------------------------------
(* Claims about the isolation of repositories *)

\* C39: every fact a deriveFacts call for (owner, repo) writes comes from a
\* raw row stored under a detail endpoint of that repository.
C39_RepositoryIsolation ==
    [][(ret'.op = "derive" /\ ret'.ok) =>
        \A f \in facts' \ facts :
            /\ f.owner = ret'.owner /\ f.repo = ret'.repo
            /\ raw'[f.source_row_id].endpoint
                 = DetailEndpoint(ret'.owner, ret'.repo,
                                  JsonNumber(raw'[f.source_row_id].payload, "number"))]_vars

---------------------------------------------------------------------------
(* Claims about the page ingester *)

\* A page that ends the loop: empty, or its last item updated before since.
EndsLoop(body, sinceMs) ==
    \/ body.items = <<>>
    \/ /\ body.items[Len(body.items)].updated_at # NullTime
       /\ DateParse(body.items[Len(body.items)].updated_at) < sinceMs

\* C40: ingestPullRequests goes on only while no page received was empty or
\* had a last item updated before the window start, and returns at the first
\* such page; each page received is stored or skipped as a duplicate, so that
\* storedCount + skippedDuplicatesCount = pagesFetched, also in the summary
\* returned; and a call whose origin eventually answers with such a page
\* comes to an end.
C40_IngestTerminates ==
    /\ [](sync.pc \in {"ingest", "done"} =>
            /\ \A i \in 1..Len(sync.fetched) :
                  EndsLoop(sync.fetched[i], sync.sinceMs)
                     <=> (sync.pc = "done" /\ i = Len(sync.fetched))
            /\ sync.pagesFetched = Len(sync.fetched)
            /\ sync.storedCount + sync.skippedDuplicatesCount = sync.pagesFetched
            /\ sync.pc = "done" =>
                  /\ sync.fetched # <<>>
                  /\ ret = IngestReturned(IngestSummary(sync))
                  /\ ret.summary.storedCount + ret.summary.skippedDuplicatesCount
                        = ret.summary.pagesFetched)
    /\ (sync.pc = "ingest") ~> (sync.pc \in {"done", "failed"})

\* A call returned after three pages, the last one ending the loop with an
\* old item, having stored two pages and skipped one as a duplicate.
C40_Witness ==
    /\ sync.pc = "done"
    /\ sync.pagesFetched = 3
    /\ sync.stoppedEarly
    /\ sync.storedCount = 2
    /\ sync.skippedDuplicatesCount = 1

===========================================================================
